---- MODULE Spec2Model ----
(***************************************************************************)
(* Reconciliation engine of the vSphere infrastructure provider:           *)
(*   - the VSphereVM controller (Reconcile, reconcileDelete,               *)
(*     reconcileNormal) with its IPAddressClaim sub-reconciler;            *)
(*   - the VSphereDeploymentZone controller (Reconcile, reconcileDelete).  *)
(* Every reconcile is one action: it reads the stored object, runs the     *)
(* body with the answers of its collaborators (backend, API server) drawn  *)
(* from small sets, and patches the object on exit as the code does.       *)
(* Where reconciles of different keys meet on one object (the session      *)
(* cache, the failure domain of two zones) the calls are steps of their    *)
(* own.                                                                    *)
(***************************************************************************)
EXTENDS Integers, Sequences, FiniteSets, TLC

VARIABLES
    vsphereVM,        \* the stored VSphereVM object
    ipAddressClaims,  \* the stored IPAddressClaim objects, by (device, pool) index
    clusterPaused,    \* the owning Cluster is paused (spec.paused / annotation)
    cycle,            \* what the last VSphereVM reconcile did ("idle": none since the last outside change)
    deploymentZones,  \* the stored VSphereDeploymentZone objects, by name
    failureDomain,    \* the stored VSphereFailureDomain shared by the zones
    machines,         \* the stored CAPI Machine objects, by name
    zcycle,           \* what the last VSphereDeploymentZone reconcile did
    zoneWorkers,      \* the delete reconcile under way for each zone key, with its copy of the failure domain
    sessionCache,     \* the cached session handle of a session key (0: none)
    inFlight,         \* a login for the session key is under way
    logins,           \* the logins started for a session key
    callers,          \* the GetOrCreate call of each reconcile worker
    resolved,         \* the credentials the last reconcile resolved for its session
    watch             \* the last event of a watch of the VSphereVM controller and its requests

vmVars   == <<vsphereVM, ipAddressClaims, clusterPaused, cycle>>
zoneVars == <<deploymentZones, failureDomain, machines, zcycle, zoneWorkers>>
sessionVars == <<sessionCache, inFlight, logins, callers, resolved>>
vars     == <<vsphereVM, ipAddressClaims, clusterPaused, cycle,
              deploymentZones, failureDomain, machines, zcycle, zoneWorkers,
              sessionCache, inFlight, logins, callers, resolved, watch>>

(***************************************************************************)
(* Bounds                                                                  *)
(***************************************************************************)
MaxDevices == 2
MaxPools == 2
MaxLogins == 2
MaxClusters == 2
MaxOwnerRefs == 2

(***************************************************************************)
(* External session cache                                                  *)
(***************************************************************************)
Workers == {"w1", "w2", "w3"}

\* the keys the callers build: server, datacenter and the credentials of the identity
\* reference or of the manager
SessionKeys == {"vc/dc/manager", "vc/dc/identity"}

NoCall == [pc |-> "idle", key |-> "", handle |-> 0, err |-> FALSE, waited |-> FALSE]

\* session.NewParams().WithUserInfo: the key of the session carries the credentials, the
\* ones of an identity reference or the ones of the manager
sessionKey(identityRef) == IF identityRef THEN "vc/dc/identity" ELSE "vc/dc/manager"

\* variant: a VSphereCluster whose identity reference does not resolve is passed over
retrieveVcenterSession_Fallback(cluster, vsphereCluster, identityRef) ==
    IF cluster = "found" /\ vsphereCluster = "found" /\ identityRef = "resolves"
    THEN [err |-> FALSE, user |-> "identity"]
    ELSE [err |-> cluster = "noInfrastructureRef", user |-> "manager"]

\* vmReconciler.retrieveVcenterSession: the credentials of the session of a VSphereVM, from
\* the lookups of its Cluster, of the VSphereCluster and of the identity reference
retrieveVcenterSession(cluster, vsphereCluster, identityRef) ==
    IF cluster = "notFound" THEN [err |-> FALSE, user |-> "manager"]
    ELSE IF cluster = "noInfrastructureRef" THEN [err |-> TRUE, user |-> "manager"]
    ELSE IF vsphereCluster = "notFound" THEN [err |-> FALSE, user |-> "manager"]
    ELSE IF identityRef = "resolves" THEN [err |-> FALSE, user |-> "identity"]
    ELSE IF identityRef = "fails" THEN [err |-> TRUE, user |-> "manager"]
    ELSE [err |-> FALSE, user |-> "manager"]

\* vsphereDeploymentZoneReconciler.getVCenterSession: the credentials of the session of a
\* zone, from the listed VSphereClusters: the first one of the server of the zone whose
\* identity reference resolves gives them
getVCenterSession(listErr, clusters) ==
    IF listErr THEN [err |-> TRUE, user |-> "manager"]
    ELSE IF \E i \in 1..Len(clusters) :
               clusters[i].server = "vc" /\ clusters[i].identityRef = "resolves"
    THEN [err |-> FALSE, user |-> "identity"]
    ELSE [err |-> FALSE, user |-> "manager"]

SessionIdle ==
    /\ sessionCache = [k \in SessionKeys |-> 0]
    /\ inFlight = [k \in SessionKeys |-> FALSE]
    /\ logins = [k \in SessionKeys |-> 0]
    /\ callers = [w \in Workers |-> NoCall]
    /\ resolved = [by |-> "", input |-> <<>>, err |-> FALSE, user |-> ""]

\* variant: GetOrCreate looks at the cache only, a login under way is not joined
joinsFlight_CacheOnly(flights, k) == FALSE

\* a login for the key is under way: the caller waits for its result
joinsFlight(flights, k) == flights[k]

\* GetOrCreate, on entry: a cached session is returned; a login under way is joined;
\* otherwise the caller starts the login
GetOrCreate(w, k) ==
    /\ IF sessionCache[k] # 0
       THEN /\ callers' = [callers EXCEPT ![w] =
                              [NoCall EXCEPT !.pc = "done", !.key = k,
                                              !.handle = sessionCache[k]]]
            /\ UNCHANGED <<inFlight, logins>>
       ELSE IF joinsFlight(inFlight, k)
       THEN /\ callers' = [callers EXCEPT ![w] = [NoCall EXCEPT !.pc = "waiting", !.key = k]]
            /\ UNCHANGED <<inFlight, logins>>
       ELSE /\ callers' = [callers EXCEPT ![w] = [NoCall EXCEPT !.pc = "login", !.key = k]]
            /\ inFlight' = [inFlight EXCEPT ![k] = TRUE]
            /\ logins' = [logins EXCEPT ![k] = @ + 1]
    /\ UNCHANGED <<sessionCache, vmVars, zoneVars, watch>>

\* the reconcile of worker w resolves the credentials and, unless that fails, calls
\* GetOrCreate with them
resolveAndGet(w, by, input, r) ==
    /\ callers[w].pc = "idle"
    /\ resolved' = [by |-> by, input |-> input, err |-> r.err, user |-> r.user]
    /\ IF r.err
       THEN UNCHANGED <<sessionCache, inFlight, logins, callers, vmVars, zoneVars, watch>>
       ELSE GetOrCreate(w, sessionKey(r.user = "identity"))

\* the login ends: a new session is cached and handed to every caller of the flight
\* (the one that logs in and those waiting on its key), or the error is
FinishLogin(w) ==
    /\ callers[w].pc = "login"
    /\ \E ok \in BOOLEAN :
          \E k \in {callers[w].key} :
             /\ sessionCache' = [sessionCache EXCEPT ![k] = IF ok THEN logins[k] ELSE @]
             /\ callers' = [c \in Workers |->
                              IF callers[c].key = k /\ callers[c].pc \in {"login", "waiting"}
                              THEN [pc |-> "done", key |-> k,
                                    handle |-> IF ok THEN logins[k] ELSE 0, err |-> ~ok,
                                    waited |-> callers[c].pc = "waiting"]
                              ELSE callers[c]]
             /\ inFlight' = [inFlight EXCEPT ![k] = FALSE]
    /\ UNCHANGED <<logins, resolved, vmVars, zoneVars, watch>>

\* the reconcile of the worker returns; the worker takes the next key from the queue
NextReconcile(w) ==
    /\ callers[w].pc = "done"
    /\ logins[callers[w].key] < MaxLogins
    /\ callers' = [callers EXCEPT ![w] = NoCall]
    /\ UNCHANGED <<sessionCache, inFlight, logins, resolved, vmVars, zoneVars, watch>>

\* a reconcile calls GetOrCreate with the credentials of an identity reference or with the
\* ones of the manager
CallGetOrCreate ==
    \E w \in Workers :
       \E identityRef \in BOOLEAN :
          /\ callers[w].pc = "idle"
          /\ GetOrCreate(w, sessionKey(identityRef))
          /\ UNCHANGED resolved

\* a VSphereVM reconcile retrieves its session
VMRetrievesSession ==
    \E w \in Workers :
       \E cluster \in {"found", "notFound", "noInfrastructureRef"} :
          \E vsphereCluster \in {"found", "notFound"} :
             \E identityRef \in {"none", "resolves", "fails"} :
                resolveAndGet(w, "vm",
                              [cluster |-> cluster, vsphereCluster |-> vsphereCluster,
                               identityRef |-> identityRef],
                              retrieveVcenterSession(cluster, vsphereCluster, identityRef))

\* a VSphereDeploymentZone reconcile gets its session
ZoneGetsSession ==
    \E w \in Workers :
       \E listErr \in BOOLEAN :
          \E n \in 0..(IF listErr THEN 0 ELSE MaxClusters) :
             \E clusters \in [1..n -> {[server |-> "vc", identityRef |-> "none"],
                                       [server |-> "vc", identityRef |-> "resolves"],
                                       [server |-> "vc", identityRef |-> "fails"],
                                       [server |-> "other", identityRef |-> "resolves"]}] :
                resolveAndGet(w, "zone", [listErr |-> listErr, clusters |-> clusters],
                              getVCenterSession(listErr, clusters))

(***************************************************************************)
(* Conditions (cluster-api util/conditions as used by the controllers)     *)
(***************************************************************************)
VCenterAvailableCondition == "VCenterAvailable"
IPAddressClaimedCondition == "IPAddressClaimed"
VMProvisionedCondition == "VMProvisioned"
ReadyCondition == "Ready"

NoCondition == [status |-> "Absent", reason |-> "", severity |-> "", message |-> <<>>]
TrueCondition == [status |-> "True", reason |-> "", severity |-> "", message |-> <<>>]
FalseCondition(reason, severity, message) ==
    [status |-> "False", reason |-> reason, severity |-> severity, message |-> message]
UnknownCondition(reason, message) ==
    [status |-> "Unknown", reason |-> reason, severity |-> "", message |-> message]

MarkTrue(obj, t) == [obj EXCEPT !.conditions[t] = TrueCondition]
MarkFalse(obj, t, reason, severity, message) ==
    [obj EXCEPT !.conditions[t] = FalseCondition(reason, severity, message)]

\* merge priority of a condition group: False/Error first, Unknown last
mergePriority(c) ==
    IF c.status = "False"
    THEN (IF c.severity = "Error" THEN 0 ELSE IF c.severity = "Warning" THEN 1 ELSE 2)
    ELSE IF c.status = "True" THEN 3 ELSE 4

\* merge of a sequence of conditions into one; NoCondition when the sequence has no condition
RECURSIVE firstOfPriority(_, _)
firstOfPriority(cs, p) ==
    IF cs = <<>> THEN NoCondition
    ELSE IF Head(cs).status # "Absent" /\ mergePriority(Head(cs)) = p THEN Head(cs)
    ELSE firstOfPriority(Tail(cs), p)

topCondition(cs) ==
    LET present == {i \in 1..Len(cs) : cs[i].status # "Absent"}
    IN  IF present = {} THEN NoCondition
        ELSE LET p == CHOOSE q \in 0..4 :
                        /\ \E i \in present : mergePriority(cs[i]) = q
                        /\ \A i \in present : mergePriority(cs[i]) >= q
             IN  firstOfPriority(cs, p)

\* conditions.SetSummary over VCenterAvailable, IPAddressClaimed, VMProvisioned
SetSummary(vm) ==
    LET top == topCondition(<<vm.conditions[VCenterAvailableCondition],
                              vm.conditions[IPAddressClaimedCondition],
                              vm.conditions[VMProvisionedCondition]>>)
    IN  IF top.status = "Absent" THEN vm
        ELSE IF top.status = "True" THEN MarkTrue(vm, ReadyCondition)
        ELSE IF top.status = "False"
             THEN MarkFalse(vm, ReadyCondition, top.reason, top.severity, top.message)
        ELSE [vm EXCEPT !.conditions[ReadyCondition] = UnknownCondition(top.reason, top.message)]

(***************************************************************************)
(* VSphereVM and IPAddressClaim objects                                    *)
(***************************************************************************)
\* a network device of the spec: DHCP flags, number of static addresses, number of pool references
Device(dhcp4, dhcp6, ipAddrs, pools) ==
    [DHCP4 |-> dhcp4, DHCP6 |-> dhcp6, IPAddrs |-> ipAddrs, AddressesFromPools |-> pools]
DhcpDevice == Device(TRUE, FALSE, 0, 0)
BareDevice == Device(FALSE, FALSE, 0, 0)
PoolDevice(n) == Device(FALSE, FALSE, 0, n)

\* the device lists of the VM lifecycle state machine: DHCP, one static address, or
\* neither; no pool reference
DeviceLists == { <<DhcpDevice>>, <<Device(FALSE, FALSE, 1, 0)>>, <<BareDevice>> }

\* the device lists of the claim state machine: none to MaxPools pool references on a device
PoolDeviceLists ==
    { <<DhcpDevice>>, <<PoolDevice(1)>>, <<PoolDevice(MaxPools)>>,
      <<DhcpDevice, PoolDevice(1)>>, <<PoolDevice(1), BareDevice>> }

\* the (device index, pool-reference index) pairs, 0-based as in the code
Pairs == (0..(MaxDevices - 1)) \X (0..(MaxPools - 1))

NoClaim ==
    [exists |-> FALSE, ownerRef |-> FALSE, finalizer |-> FALSE, label |-> FALSE,
     poolRef |-> FALSE, addressRef |-> FALSE, ready |-> "Absent"]

NoVM(devices) ==
    [exists |-> FALSE, deletionTimestamp |-> FALSE, finalizer |-> FALSE, devices |-> devices,
     biosUUID |-> "", vmRef |-> "", network |-> <<>>, addresses |-> <<>>, ready |-> FALSE,
     failure |-> FALSE, conditions |-> [t \in {VCenterAvailableCondition, IPAddressClaimedCondition,
                            VMProvisionedCondition, ReadyCondition} |-> NoCondition]]

NewVM(devices) == [NoVM(devices) EXCEPT !.exists = TRUE]

\* the storage layer purges an object marked for deletion once it has no finalizer
Purge(vm) ==
    IF vm.exists /\ vm.deletionTimestamp /\ ~vm.finalizer THEN NoVM(vm.devices) ELSE vm

(***************************************************************************)
(* Answers of the collaborators, drawn per reconcile                       *)
(***************************************************************************)
VirtualMachineStateNotFound == "notfound"
VirtualMachineStatePending == "pending"
VirtualMachineStateReady == "ready"

\* a (vm, err) answer of VMService.ReconcileVM: no error, a VM that is not ready
NoVMAnswer ==
    [err |-> FALSE, state |-> VirtualMachineStatePending, biosUUID |-> "", vmRef |-> "",
     network |-> <<>>]


RECURSIVE devicePairs(_, _)
\* the (devIdx, poolRefIdx) pairs from device d on, in the iteration order of the code
devicePairs(devices, d) ==
    IF d >= Len(devices) THEN <<>>
    ELSE [p \in 1..devices[d + 1].AddressesFromPools |-> <<d, p - 1>>]
         \o devicePairs(devices, d + 1)

\* variant: every device is taken to have MaxPools pool references
pairsOf_EveryPool(devices) ==
    [i \in 1..(Len(devices) * MaxPools) |-> <<(i - 1) \div MaxPools, (i - 1) % MaxPools>>]

pairsOf(devices) == devicePairs(devices, 0)
pairSet(devices) == {pairsOf(devices)[i] : i \in 1..Len(pairsOf(devices))}

\* the answers of the API server for the claims of devices, per claim: the API calls
\* succeed, the Get fails (not NotFound), or the write fails; both loops over the claims
\* stop at the first failed Get, so the answers after it are left at "ok"
ClaimIOs(devices) ==
    LET ps == pairsOf(devices)
        upToFirstGetErr(g) ==
            \A i \in 1..Len(ps), j \in 1..Len(ps) : (i < j /\ g[ps[i]] = "getErr") => g[ps[j]] = "ok"
    IN  { [p \in Pairs |-> IF p \in pairSet(devices) THEN g[p] ELSE "ok"] :
            g \in {h \in [pairSet(devices) -> {"ok", "getErr", "writeErr"}] : upToFirstGetErr(h)} }

(***************************************************************************)
(* Address Claim Sub-reconciler                                            *)
(***************************************************************************)
IPAddressClaimNotFoundReason == "IPAddressClaimNotFound"
IPAddressClaimsBeingCreatedReason == "IPAddressClaimsBeingCreated"
WaitingForIPAddressReason == "WaitingForIPAddress"

\* variant: the claim is written anew, as on creation
createOrPatchIPAddressClaim_Replace(claim, io) ==
    IF io = "writeErr" THEN [claim |-> claim, created |-> FALSE, err |-> TRUE]
    ELSE [claim |-> [NoClaim EXCEPT !.exists = TRUE, !.ownerRef = TRUE, !.finalizer = TRUE,
                                    !.label = TRUE, !.poolRef = TRUE],
          created |-> ~claim.exists, err |-> FALSE]

\* ctrlutil.CreateOrPatch with mutateFn: creates the claim, or sets the owner reference,
\* the finalizer, the cluster-name label and the pool reference on the existing one
createOrPatchIPAddressClaim(claim, io) ==
    IF io = "writeErr" THEN [claim |-> claim, created |-> FALSE, err |-> TRUE]
    ELSE IF ~claim.exists
    THEN [claim |-> [NoClaim EXCEPT !.exists = TRUE, !.ownerRef = TRUE, !.finalizer = TRUE,
                                    !.label = TRUE, !.poolRef = TRUE],
          created |-> TRUE, err |-> FALSE]
    ELSE [claim |-> [claim EXCEPT !.ownerRef = TRUE, !.finalizer = TRUE,
                                  !.label = TRUE, !.poolRef = TRUE],
          created |-> FALSE, err |-> FALSE]

\* the Ready condition an IPAM provider has put on a claim
claimReadyCondition(claim) ==
    IF claim.ready = "True" THEN TrueCondition
    ELSE IF claim.ready = "False" THEN FalseCondition("NotReady", "Error", <<>>)
    ELSE IF claim.ready = "Unknown" THEN UnknownCondition("NotReady", <<>>)
    ELSE NoCondition

NoClaimStats ==
    [ran |-> FALSE, fetchErr |-> FALSE, errs |-> 0, patched |-> 0,
     totalClaims |-> 0, claimsCreated |-> 0, claimsFulfilled |-> 0, claims |-> <<>>]

\* variant: a created claim is counted like a patched one
countClaim_CreatedAsPatched(st, r) ==
    IF r.err THEN [st EXCEPT !.totalClaims = @ + 1, !.errs = @ + 1]
    ELSE [st EXCEPT
            !.totalClaims = @ + 1,
            !.patched = @ + 1,
            !.claimsFulfilled = IF r.claim.addressRef THEN @ + 1 ELSE @,
            !.claims = IF r.claim.ready # "Absent"
                       THEN Append(@, claimReadyCondition(r.claim))
                       ELSE @]

\* the counters after createOrPatchIPAddressClaim answered r for one claim
countClaim(st, r) ==
    IF r.err THEN [st EXCEPT !.totalClaims = @ + 1, !.errs = @ + 1]
    ELSE [st EXCEPT
            !.totalClaims = @ + 1,
            !.patched = @ + 1,
            !.claimsCreated = IF r.created THEN @ + 1 ELSE @,
            !.claimsFulfilled = IF r.claim.addressRef THEN @ + 1 ELSE @,
            !.claims = IF r.claim.ready # "Absent"
                       THEN Append(@, claimReadyCondition(r.claim))
                       ELSE @]

RECURSIVE claimLoop(_, _, _, _)
RECURSIVE claimStep(_, _, _, _, _)
\* the loop over the devices and their pool references; st accumulates the counters
claimLoop(stored, io, pairs, st) ==
    IF pairs = <<>> THEN [stored |-> stored, st |-> st]
    ELSE IF io[Head(pairs)] = "getErr"
    THEN [stored |-> stored, st |-> [st EXCEPT !.totalClaims = @ + 1, !.fetchErr = TRUE]]
    ELSE claimStep(stored, io, pairs, st,
                   createOrPatchIPAddressClaim(stored[Head(pairs)], io[Head(pairs)]))

\* variant: the loop ends at the first create-or-patch that fails
claimStep_StopAtError(stored, io, pairs, st, r) ==
    IF r.err THEN [stored |-> stored, st |-> countClaim(st, r)]
    ELSE claimLoop([stored EXCEPT ![Head(pairs)] = r.claim], io, Tail(pairs), countClaim(st, r))

claimStep(stored, io, pairs, st, r) ==
    claimLoop([stored EXCEPT ![Head(pairs)] = r.claim], io, Tail(pairs), countClaim(st, r))

\* conditions.SetAggregate with the step counter: the merge of the claims' Ready conditions
SetAggregate(vm, t, cs) ==
    LET top == topCondition(cs)
        done == Cardinality({i \in 1..Len(cs) : cs[i].status = "True"})
    IN  IF top.status = "Absent" THEN vm
        ELSE IF top.status = "True" THEN MarkTrue(vm, t)
        ELSE IF top.status = "False"
             THEN MarkFalse(vm, t, top.reason, top.severity, <<done, Len(cs)>>)
        ELSE [vm EXCEPT !.conditions[t] = UnknownCondition(top.reason, <<done, Len(cs)>>)]

\* variant: the counters decide first, the Ready conditions only while a claim is unfulfilled
allClaimsReportReady_UnlessFulfilled(st) ==
    Len(st.claims) = st.totalClaims /\ st.claimsFulfilled < st.totalClaims

\* all claims report the Ready condition: the precise path applies
allClaimsReportReady(st) == Len(st.claims) = st.totalClaims
\* variant: the waiting message counts the fulfilled claims instead of the pending ones
fallbackClaimCondition_Fulfilled(vm, st) ==
    IF st.totalClaims = st.claimsFulfilled
    THEN MarkTrue(vm, IPAddressClaimedCondition)
    ELSE IF st.claimsFulfilled < st.totalClaims /\ st.claimsCreated > 0
    THEN MarkFalse(vm, IPAddressClaimedCondition, IPAddressClaimsBeingCreatedReason, "Info",
                   <<st.claimsCreated, st.totalClaims>>)
    ELSE MarkFalse(vm, IPAddressClaimedCondition, WaitingForIPAddressReason, "Info",
                   <<st.claimsFulfilled, st.totalClaims>>)

\* the fallback computation of the IPAddressClaimed condition from the counters
fallbackClaimCondition(vm, st) ==
    IF st.totalClaims = st.claimsFulfilled
    THEN MarkTrue(vm, IPAddressClaimedCondition)
    ELSE IF st.claimsFulfilled < st.totalClaims /\ st.claimsCreated > 0
    THEN MarkFalse(vm, IPAddressClaimedCondition, IPAddressClaimsBeingCreatedReason, "Info",
                   <<st.claimsCreated, st.totalClaims>>)
    ELSE IF st.claimsFulfilled < st.totalClaims /\ st.claimsCreated = 0
    THEN MarkFalse(vm, IPAddressClaimedCondition, WaitingForIPAddressReason, "Info",
                   <<st.totalClaims - st.claimsFulfilled, st.totalClaims>>)
    ELSE vm

\* the IPAddressClaimed condition and the error, from the counters of the loop
claimCondition(vm, st) ==
    IF st.fetchErr THEN [vm |-> vm, err |-> TRUE]
    ELSE IF st.errs > 0
    THEN [vm |-> MarkFalse(vm, IPAddressClaimedCondition, IPAddressClaimNotFoundReason,
                           "Error", <<>>),
          err |-> TRUE]
    ELSE IF allClaimsReportReady(st)
    THEN [vm |-> SetAggregate(vm, IPAddressClaimedCondition, st.claims), err |-> FALSE]
    ELSE [vm |-> fallbackClaimCondition(vm, st), err |-> FALSE]

\* the number of failures the error returned by reconcileIPAddressClaims carries: the error
\* of the failed Get alone, or the aggregate of the create-or-patch errors collected in errList
returnedErrors(st) == IF st.fetchErr THEN 1 ELSE st.errs

\* what reconcileIPAddressClaims hands back once the loop is over: the claims as stored,
\* the VM with its IPAddressClaimed condition, and the error
claimsAfterLoop(vm, l) ==
    CHOOSE r \in {[vm |-> c.vm, claims |-> l.stored, st |-> l.st, err |-> c.err] :
                     c \in {claimCondition(vm, l.st)}} : TRUE

\* (what a call returned is bound as a value: CHOOSE x \in {f(y) : y \in {e}} : TRUE is f(e),
\* with e computed once)
reconcileIPAddressClaims(vm, stored, io) ==
    CHOOSE c \in {claimsAfterLoop(vm, l) :
                     l \in {claimLoop(stored, io, pairsOf(vm.devices),
                                       [NoClaimStats EXCEPT !.ran = TRUE])}} : TRUE

RECURSIVE releaseLoop(_, _, _)
\* deleteIPAddressClaims: clears the finalizer of every existing claim, stops at the first error
releaseLoop(stored, io, pairs) ==
    IF pairs = <<>> THEN [claims |-> stored, err |-> FALSE]
    ELSE LET p == Head(pairs)
         IN  IF io[p] = "getErr" THEN [claims |-> stored, err |-> TRUE]
             ELSE IF ~stored[p].exists THEN releaseLoop(stored, io, Tail(pairs))
             ELSE IF ~stored[p].finalizer THEN releaseLoop(stored, io, Tail(pairs))
             ELSE IF io[p] = "writeErr" THEN [claims |-> stored, err |-> TRUE]
             ELSE releaseLoop([stored EXCEPT ![p].finalizer = FALSE], io, Tail(pairs))

\* variant: the claims of the VM are deleted with it
deleteIPAddressClaims_DeleteClaims(vm, stored, io) ==
    [claims |-> [p \in Pairs |-> IF p \in pairSet(vm.devices) THEN NoClaim ELSE stored[p]],
     err |-> FALSE]

deleteIPAddressClaims(vm, stored, io) == releaseLoop(stored, io, pairsOf(vm.devices))

(***************************************************************************)
(* VM Lifecycle Reconciler                                                 *)
(***************************************************************************)
DeletingReason == "Deleting"
DeletionFailedReason == "DeletionFailed"
WaitingForStaticIPAllocationReason == "WaitingForStaticIPAllocation"
WaitingForIPAllocationReason == "WaitingForIPAllocation"
VCenterUnreachableReason == "VCenterUnreachable"
RequeueAfterSeconds == 10

ResultOK == [err |-> FALSE, requeue |-> FALSE, requeueAfter |-> 0]
ResultErr == [err |-> TRUE, requeue |-> FALSE, requeueAfter |-> 0]
ResultRequeue == [err |-> FALSE, requeue |-> TRUE, requeueAfter |-> 0]
ResultRequeueAfter(n) == [err |-> FALSE, requeue |-> FALSE, requeueAfter |-> n]

NoDestroyAnswer == [err |-> FALSE, requeue |-> FALSE, state |-> VirtualMachineStatePending]

\* what a reconcile called on the way: the backend calls with their answers, the claim counters
NoCalls ==
    [destroyVM |-> FALSE, destroyAnswer |-> NoDestroyAnswer,
     reconcileVM |-> FALSE, vmAnswer |-> NoVMAnswer,
     deleteNode |-> FALSE, releaseClaims |-> FALSE, st |-> NoClaimStats]

Out(vm, claims, result, calls) ==
    [vm |-> vm, claims |-> claims, result |-> result, calls |-> calls]
\* variant: a backend VM that is merely not ready counts as gone
vmDestroyed_NotReady(answer) == answer.state # VirtualMachineStateReady

\* the backend confirms that the VM is gone
vmDestroyed(answer) == answer.state = VirtualMachineStateNotFound

\* variant: a node that cannot be deleted is retried like a locked tracker
deleteNode_RetryOnError(node) ==
    IF node \in {"locked", "error"} THEN [result |-> ResultRequeue, err |-> FALSE]
    ELSE [result |-> ResultOK, err |-> FALSE]

\* deleteNode: only a locked cluster cache tracker asks for a requeue; errors are returned to be logged
deleteNode(node) ==
    IF node = "locked" THEN [result |-> ResultRequeue, err |-> FALSE]
    ELSE IF node = "error" THEN [result |-> ResultOK, err |-> TRUE]
    ELSE [result |-> ResultOK, err |-> FALSE]

\* variant: the finalizer goes whether or not the claims could be released
releaseAndFinish_BestEffort(vm, rel, calls) ==
    Out([vm EXCEPT !.finalizer = FALSE], rel.claims, ResultOK, calls)

\* variant: the claims are released and the finalizer is left for a later reconcile
releaseAndFinish_ClaimsOnly(vm, rel, calls) ==
    Out(vm, rel.claims, IF rel.err THEN ResultErr ELSE ResultOK, calls)

\* the end of the delete path: the finalizer goes unless releasing the claims failed
releaseAndFinish(vm, rel, calls) ==
    IF rel.err THEN Out(vm, rel.claims, ResultErr, calls)
    ELSE Out([vm EXCEPT !.finalizer = FALSE], rel.claims, ResultOK, calls)

\* reconcileDelete: DestroyVM until the backend VM is gone, then the node, the claims and
\* the finalizer
reconcileDelete(vm, claims, in) ==
    LET vm1 == MarkFalse(vm, VMProvisionedCondition, DeletingReason, "Info", <<>>)
        c1 == [NoCalls EXCEPT !.destroyVM = TRUE, !.destroyAnswer = in.destroy]
    IN  IF in.destroy.err
        THEN Out(MarkFalse(vm1, VMProvisionedCondition, DeletionFailedReason, "Warning", <<>>),
                 claims, ResultErr, c1)
        ELSE IF in.destroy.requeue THEN Out(vm1, claims, ResultRequeue, c1)
        ELSE IF ~vmDestroyed(in.destroy) THEN Out(vm1, claims, ResultOK, c1)
        ELSE LET c2 == [c1 EXCEPT !.deleteNode = TRUE]
             IN  IF deleteNode(in.node).result # ResultOK
                 THEN Out(vm1, claims, deleteNode(in.node).result, c2)
                 ELSE releaseAndFinish(vm1, deleteIPAddressClaims(vm1, claims, in.claimIO),
                                       [c2 EXCEPT !.releaseClaims = TRUE])

\* variant: only the first device is looked at
isWaitingForStaticIPAllocation_FirstDevice(vm) ==
    /\ Len(vm.devices) > 0
    /\ LET dev == vm.devices[1]
       IN  ~dev.DHCP4 /\ ~dev.DHCP6 /\ dev.IPAddrs = 0 /\ dev.AddressesFromPools = 0

\* variant: a pool reference does not count as an address source
isWaitingForStaticIPAllocation_NoPools(vm) ==
    \E i \in 1..Len(vm.devices) :
        LET dev == vm.devices[i]
        IN  ~dev.DHCP4 /\ ~dev.DHCP6 /\ dev.IPAddrs = 0

\* a device has neither DHCP nor a static address nor a pool reference
isWaitingForStaticIPAllocation(vm) ==
    \E i \in 1..Len(vm.devices) :
        LET dev == vm.devices[i]
        IN  ~dev.DHCP4 /\ ~dev.DHCP6 /\ dev.IPAddrs = 0 /\ dev.AddressesFromPools = 0

\* variant: no address is read from the network status
flatten_NoAddress(network) == <<>>

RECURSIVE flatten(_)
flatten(network) ==
    IF network = <<>> THEN <<>> ELSE Head(network) \o flatten(Tail(network))

\* variant: the addresses of the backend are appended to those already in the status
reconcileNetwork_Append(vm, network) ==
    [vm EXCEPT !.network = network, !.addresses = @ \o flatten(network)]

\* reconcileNetwork: the network status of the backend VM, and its addresses flattened
reconcileNetwork(vm, network) ==
    [vm EXCEPT !.network = network, !.addresses = flatten(network)]

\* variant: the BIOS UUID is copied without the defensive check
updateBiosUUID_NoCheck(vm, answer) ==
    [vm |-> [vm EXCEPT !.biosUUID = answer.biosUUID], err |-> FALSE]

\* the BIOS UUID of a ready backend VM is copied into the spec; an empty one is an error
updateBiosUUID(vm, answer) ==
    IF answer.biosUUID # ""
    THEN [vm |-> [vm EXCEPT !.biosUUID = answer.biosUUID], err |-> FALSE]
    ELSE [vm |-> vm, err |-> TRUE]
\* variant: the VM reference follows the backend on every reconcile
updateVMRef_Always(vm, answer) ==
    IF answer.vmRef # "" THEN [vm EXCEPT !.vmRef = answer.vmRef] ELSE vm

\* VMRef is set just once
updateVMRef(vm, answer) ==
    IF answer.vmRef # "" /\ vm.vmRef = "" THEN [vm EXCEPT !.vmRef = answer.vmRef] ELSE vm
\* variant: the reconcile goes on after the empty BIOS UUID
reconcileReady_IgnoreErr(c, in, calls, u) ==
    LET vm2 == reconcileNetwork(updateVMRef(u.vm, in.vm), in.vm.network)
    IN  IF Len(vm2.addresses) = 0
        THEN Out(MarkFalse(vm2, VMProvisionedCondition,
                           WaitingForIPAllocationReason, "Info", <<>>),
                 c.claims, ResultRequeueAfter(RequeueAfterSeconds), calls)
        ELSE Out(MarkTrue([vm2 EXCEPT !.ready = TRUE], VMProvisionedCondition),
                 c.claims, IF u.err THEN ResultErr ELSE ResultOK, calls)

\* reconcileNormal once the backend VM is ready; u is what updateBiosUUID answered
\* variant: a ready backend VM makes the VSphereVM ready, with or without addresses
reconcileReady_NoAddressCheck(c, in, calls, u) ==
    IF u.err THEN Out(c.vm, c.claims, ResultErr, calls)
    ELSE Out(MarkTrue([reconcileNetwork(updateVMRef(u.vm, in.vm), in.vm.network)
                          EXCEPT !.ready = TRUE],
                      VMProvisionedCondition),
             c.claims, ResultOK, calls)

\* variant: the VSphereVM is marked ready before its addresses are looked at
reconcileReady_ReadyFirst(c, in, calls, u) ==
    IF u.err THEN Out(c.vm, c.claims, ResultErr, calls)
    ELSE LET vm2 == [reconcileNetwork(updateVMRef(u.vm, in.vm), in.vm.network)
                        EXCEPT !.ready = TRUE]
         IN  IF Len(vm2.addresses) = 0
             THEN Out(MarkFalse(vm2, VMProvisionedCondition,
                                WaitingForIPAllocationReason, "Info", <<>>),
                      c.claims, ResultRequeueAfter(RequeueAfterSeconds), calls)
             ELSE Out(MarkTrue(vm2, VMProvisionedCondition), c.claims, ResultOK, calls)

reconcileReady(c, in, calls, u) ==
    IF u.err THEN Out(c.vm, c.claims, ResultErr, calls)
    ELSE LET vm2 == reconcileNetwork(updateVMRef(u.vm, in.vm), in.vm.network)
         IN  IF Len(vm2.addresses) = 0
             THEN Out(MarkFalse(vm2, VMProvisionedCondition,
                                WaitingForIPAllocationReason, "Info", <<>>),
                      c.claims, ResultRequeueAfter(RequeueAfterSeconds), calls)
             ELSE Out(MarkTrue([vm2 EXCEPT !.ready = TRUE], VMProvisionedCondition),
                      c.claims, ResultOK, calls)

\* variant: a failure of reconcileIPAddressClaims is logged and the reconcile goes on
reconcileBackend_IgnoreClaimErr(c, in) ==
    LET c2 == [NoCalls EXCEPT !.st = c.st, !.reconcileVM = TRUE, !.vmAnswer = in.vm]
    IN  IF in.vm.err THEN Out(c.vm, c.claims, ResultErr, c2)
        ELSE IF in.vm.state # VirtualMachineStateReady
        THEN Out(c.vm, c.claims, IF c.err THEN ResultErr ELSE ResultOK, c2)
        ELSE reconcileReady(c, in, c2, updateBiosUUID(c.vm, in.vm))

\* reconcileNormal from the ReconcileVM call on; c is what reconcileIPAddressClaims left
reconcileBackend(c, in) ==
    LET c1 == [NoCalls EXCEPT !.st = c.st]
        c2 == [c1 EXCEPT !.reconcileVM = TRUE, !.vmAnswer = in.vm]
    IN  IF c.err THEN Out(c.vm, c.claims, ResultErr, c1)
        ELSE IF in.vm.err THEN Out(c.vm, c.claims, ResultErr, c2)
        ELSE IF in.vm.state # VirtualMachineStateReady
        THEN Out(c.vm, c.claims, ResultOK, c2)
        ELSE reconcileReady(c, in, c2, updateBiosUUID(c.vm, in.vm))

\* variant: a VM that is marked failed is reconciled like any other
reconcileNormal_IgnoreFailure(vm, claims, in) ==
    IF isWaitingForStaticIPAllocation(vm)
    THEN Out(MarkFalse(vm, VMProvisionedCondition, WaitingForStaticIPAllocationReason, "Info", <<>>),
             claims, ResultOK, NoCalls)
    ELSE reconcileBackend(reconcileIPAddressClaims(vm, claims, in.claimIO), in)

reconcileNormal(vm, claims, in) ==
    IF vm.failure THEN Out(vm, claims, ResultOK, NoCalls)
    ELSE IF isWaitingForStaticIPAllocation(vm)
    THEN Out(MarkFalse(vm, VMProvisionedCondition, WaitingForStaticIPAllocationReason, "Info", <<>>),
             claims, ResultOK, NoCalls)
    ELSE CHOOSE o \in {reconcileBackend(c, in) :
                          c \in {reconcileIPAddressClaims(vm, claims, in.claimIO)}} : TRUE

\* variant: only a VM that was created in the backend takes the delete path
reconcile_CreatedOnly(vm, claims, in) ==
    IF in.moduleErr /\ ~vm.deletionTimestamp THEN Out(vm, claims, ResultErr, NoCalls)
    ELSE IF vm.deletionTimestamp /\ vm.vmRef # "" THEN reconcileDelete(vm, claims, in)
    ELSE reconcileNormal(vm, claims, in)

\* reconcile: cluster module lookup (NodeAntiAffinity), then the delete or the normal path
reconcile(vm, claims, in) ==
    IF in.moduleErr /\ ~vm.deletionTimestamp THEN Out(vm, claims, ResultErr, NoCalls)
    ELSE IF vm.deletionTimestamp THEN reconcileDelete(vm, claims, in)
    ELSE reconcileNormal(vm, claims, in)
\* variant: no finalizer block, the reconcile starts on a VM without finalizer
reconcileUnderPatch_NoFinalizerGate(vm, claims, paused, in) ==
    IF ~in.clusterErr /\ paused
    THEN [path |-> "paused", out |-> Out(vm, claims, ResultOK, NoCalls)]
    ELSE [path |-> IF in.moduleErr /\ ~vm.deletionTimestamp THEN "moduleErr"
                   ELSE IF vm.deletionTimestamp THEN "delete" ELSE "normal",
          out |-> reconcile(vm, claims, in)]

\* variant: the finalizer is added and the same reconcile goes on
reconcileUnderPatch_NoRequeue(vm, claims, paused, in) ==
    IF ~in.clusterErr /\ paused
    THEN [path |-> "paused", out |-> Out(vm, claims, ResultOK, NoCalls)]
    ELSE IF ~vm.deletionTimestamp /\ ~vm.finalizer
    THEN [path |-> "addFinalizer",
          out |-> reconcile([vm EXCEPT !.finalizer = TRUE], claims, in)]
    ELSE [path |-> IF in.moduleErr /\ ~vm.deletionTimestamp THEN "moduleErr"
                   ELSE IF vm.deletionTimestamp THEN "delete" ELSE "normal",
          out |-> reconcile(vm, claims, in)]

\* the part of Reconcile that runs under the deferred patch: pause check, finalizer, reconcile
reconcileUnderPatch(vm, claims, paused, in) ==
    IF ~in.clusterErr /\ paused
    THEN [path |-> "paused", out |-> Out(vm, claims, ResultOK, NoCalls)]
    ELSE IF ~vm.deletionTimestamp /\ ~vm.finalizer
    THEN [path |-> "addFinalizer",
          out |-> Out([vm EXCEPT !.finalizer = TRUE], claims, ResultOK, NoCalls)]
    ELSE [path |-> IF in.moduleErr /\ ~vm.deletionTimestamp THEN "moduleErr"
                   ELSE IF vm.deletionTimestamp THEN "delete" ELSE "normal",
          out |-> reconcile(vm, claims, in)]

\* the deferred function: summary condition, then the patch of the object
patchOnExit(stored, vm, in) == IF in.patchErr THEN stored ELSE SetSummary(vm)

\* variant: the object is patched only when the body returned no error
exitWithPatch_SkipOnError(stored, in, b) ==
    IF b.out.result.err THEN [path |-> b.path, out |-> [b.out EXCEPT !.vm = stored]]
    ELSE [path |-> b.path,
          out |-> [b.out EXCEPT !.vm = patchOnExit(stored, b.out.vm, in),
                                !.result = IF in.patchErr THEN ResultErr ELSE @]]

\* the exit of Reconcile once the deferred patch is registered; b is what the body returned
exitWithPatch(stored, in, b) ==
    [path |-> b.path,
     out |-> [b.out EXCEPT !.vm = patchOnExit(stored, b.out.vm, in),
                           !.result = IF in.patchErr THEN ResultErr ELSE @]]

\* variant: the in-memory object of such a return is stored all the same
exitWithoutPatch_Stored(path, stored, vm, claims, result) ==
    [path |-> path, out |-> Out(vm, claims, result, NoCalls)]

\* a return before the deferred patch is registered: what the call changed on its copy of
\* the object (vm) is dropped, the store keeps the object as it was fetched
exitWithoutPatch(path, stored, vm, claims, result) ==
    [path |-> path, out |-> Out(stored, claims, result, NoCalls)]

Reconcile(stored, claims, paused, in) ==
    IF ~stored.exists
    THEN [path |-> "notFound", out |-> Out(stored, claims, ResultOK, NoCalls)]
    ELSE IF in.sessionErr
    THEN exitWithoutPatch("sessionErr", stored,
                          MarkFalse(stored, VCenterAvailableCondition,
                                    VCenterUnreachableReason, "Error", <<>>),
                          claims, ResultErr)
    ELSE LET vm == MarkTrue(stored, VCenterAvailableCondition)
         IN  IF in.owners \in {"noVSphereMachine", "noVSphereCluster", "noMachine"}
             THEN exitWithoutPatch("noOwner", stored, vm, claims, ResultOK)
             ELSE IF in.owners \in {"machineError", "zoneError"}
             THEN exitWithoutPatch("ownerErr", stored, vm, claims, ResultErr)
             ELSE CHOOSE e \in {exitWithPatch(stored, in, b) :
                                b \in {reconcileUnderPatch(vm, claims, paused, in)}} : TRUE

(***************************************************************************)
(* The VSphereVM controller as a state machine                             *)
(***************************************************************************)
DefaultInput ==
    [sessionErr |-> FALSE, owners |-> "resolved", clusterErr |-> FALSE, moduleErr |-> FALSE,
     destroy |-> NoDestroyAnswer, node |-> "deleted", claimIO |-> [p \in Pairs |-> "ok"],
     vm |-> NoVMAnswer, patchErr |-> FALSE]

\* the answers a reconcile of vm can meet. Answers the code never looks at are left at
\* their defaults: those of the calls made before the deferred patch is registered, then
\* those of the delete path (node and claims only once the VM is gone) or of the normal
\* path (the backend only once the claims are handled)
\* (the owner objects resolve or one of them does not: VSphereMachine, VSphereCluster,
\* Machine, zone and failure domain)
ReconcileInputs(vm, paused, answers, patchErrs) ==
    { [DefaultInput EXCEPT !.sessionErr = TRUE], [DefaultInput EXCEPT !.moduleErr = TRUE] }
    \cup { [DefaultInput EXCEPT !.owners = o] :
              o \in {"resolved", "noVSphereMachine", "noVSphereCluster", "machineError",
                     "noMachine", "zoneError"} }
    \cup { [DefaultInput EXCEPT !.clusterErr = ce] : ce \in (IF paused THEN BOOLEAN ELSE {FALSE}) }
    \cup (IF vm.deletionTimestamp
          THEN
          { [DefaultInput EXCEPT !.destroy = d, !.patchErr = pe] :
               d \in [err : BOOLEAN, requeue : BOOLEAN,
                      state : {VirtualMachineStateNotFound, VirtualMachineStatePending,
                               VirtualMachineStateReady}],
               pe \in patchErrs }
          \cup { [DefaultInput EXCEPT !.destroy.state = VirtualMachineStateNotFound,
                                      !.node = n, !.patchErr = pe] :
                    n \in {"deleted", "error", "locked"}, pe \in patchErrs }
          \cup { [DefaultInput EXCEPT !.destroy.state = VirtualMachineStateNotFound,
                                      !.claimIO = io, !.patchErr = pe] :
                    io \in ClaimIOs(vm.devices), pe \in patchErrs }
          ELSE
          { [DefaultInput EXCEPT !.claimIO = io, !.patchErr = pe] :
               io \in ClaimIOs(vm.devices), pe \in patchErrs }
          \cup { [DefaultInput EXCEPT !.vm = a, !.patchErr = pe] : a \in answers, pe \in patchErrs })

IdleCycle ==
    [path |-> "idle", fetchedFinalizer |-> FALSE, fetchedDeletion |-> FALSE,
     fetchedBiosUUID |-> "", fetchedVMRef |-> "", in |-> DefaultInput,
     result |-> ResultOK, calls |-> NoCalls]

\* the backend answers of the claim state machine: an error, not ready yet, ready
ClaimVMAnswers ==
    { [NoVMAnswer EXCEPT !.err = TRUE], NoVMAnswer,
      [err |-> FALSE, state |-> VirtualMachineStateReady, biosUUID |-> "h-1",
       vmRef |-> "vm-1", network |-> << <<"10.0.0.5">> >>] }

\* no event of a watch yet
NoEvent == [source |-> "", type |-> "", old |-> <<>>, new |-> <<>>, requests |-> <<>>]

VMIdle ==
    /\ vsphereVM = NoVM(<<>>)
    /\ ipAddressClaims = [p \in Pairs |-> NoClaim]
    /\ clusterPaused = FALSE
    /\ cycle = IdleCycle
    /\ watch = NoEvent

\* a freshly created VSphereVM, no claim yet
InitVM ==
    /\ vsphereVM \in {NewVM(d) : d \in DeviceLists}
    /\ ipAddressClaims = [p \in Pairs |-> NoClaim]
    /\ clusterPaused = FALSE
    /\ cycle = IdleCycle
    /\ watch = NoEvent

\* one Reconcile of the VSphereVM key, with the backend answers and patch failures it can meet
ReconcileWith(answers, patchErrs) ==
    /\ \E in \in ReconcileInputs(vsphereVM, clusterPaused, answers, patchErrs) :
          \E r \in {Reconcile(vsphereVM, ipAddressClaims, clusterPaused, in)} :
              /\ vsphereVM' = Purge(r.out.vm)
              /\ ipAddressClaims' = r.out.claims
              /\ cycle' = [path |-> r.path,
                           fetchedFinalizer |-> vsphereVM.finalizer,
                           fetchedDeletion |-> vsphereVM.deletionTimestamp,
                           fetchedBiosUUID |-> vsphereVM.biosUUID,
                           fetchedVMRef |-> vsphereVM.vmRef,
                           in |-> in,
                           result |-> r.out.result, calls |-> r.out.calls]
    /\ UNCHANGED <<clusterPaused, zoneVars, sessionVars, watch>>

\* the answers of the backend: an error, no VM yet, or a ready VM with any BIOS UUID,
\* reference and network status
ReconcileVSphereVM ==
    ReconcileWith(
        { [NoVMAnswer EXCEPT !.err = TRUE] }
        \cup { [NoVMAnswer EXCEPT !.state = s] :
                  s \in {VirtualMachineStateNotFound, VirtualMachineStatePending} }
        \cup { [err |-> FALSE, state |-> VirtualMachineStateReady, biosUUID |-> b, vmRef |-> r,
                network |-> n] :
                  b \in {"", "h-1", "h-2"}, r \in {"", "vm-1", "vm-2"},
                  n \in { <<>>, << <<"10.0.0.5">> >> } }
        \cup { [err |-> FALSE, state |-> VirtualMachineStateReady, biosUUID |-> "h-1",
                vmRef |-> "vm-1", network |-> << <<>> >>] },
        BOOLEAN)

\* a user deletes the VSphereVM: the storage layer sets the deletion timestamp
RequestDeletion ==
    /\ vsphereVM.exists /\ ~vsphereVM.deletionTimestamp
    /\ vsphereVM' = Purge([vsphereVM EXCEPT !.deletionTimestamp = TRUE])
    /\ cycle' = IdleCycle
    /\ UNCHANGED <<ipAddressClaims, clusterPaused, zoneVars, sessionVars, watch>>

\* the owning Cluster is paused or unpaused
SetPaused ==
    /\ clusterPaused' = ~clusterPaused
    /\ cycle' = IdleCycle
    /\ UNCHANGED <<vsphereVM, ipAddressClaims, zoneVars, sessionVars, watch>>

\* the VM is marked failed (terminal failure reason / message)
MarkFailed ==
    /\ vsphereVM.exists /\ ~vsphereVM.failure
    /\ vsphereVM' = [vsphereVM EXCEPT !.failure = TRUE]
    /\ cycle' = IdleCycle
    /\ UNCHANGED <<ipAddressClaims, clusterPaused, zoneVars, sessionVars, watch>>

(***************************************************************************)
(* Watches of the VSphereVM controller                                     *)
(***************************************************************************)
\* predicates.ResourceNotPausedAndHasFilterLabel, the event filter of every watch: the
\* object (the new one of an Update) has no paused annotation, and carries the watch
\* filter label when a filter value is configured
ResourceNotPausedAndHasFilterLabel(obj) == ~obj.annotation /\ obj.filterLabel

\* variant: an Update passes when the Cluster goes from paused to not paused
clusterPredicates_Transition(type, old, new) ==
    CASE type = "Update" -> (old.paused \/ old.annotation) /\ ~(new.paused \/ new.annotation)
      [] type = "Create" -> new.paused \/ new.annotation
      [] OTHER -> TRUE

\* the predicate.Funcs of the Cluster watch: annotations.IsPaused of the new Cluster of an
\* Update, of the Cluster of a Create; Delete and Generic have no function and pass
clusterPredicates(type, old, new) ==
    CASE type = "Update" -> ~(new.paused \/ new.annotation)
      [] type = "Create" -> new.paused \/ new.annotation
      [] OTHER -> TRUE

\* clusterToVSphereVMs: a request for every VSphereVM listed with the cluster name label,
\* none when the List fails
clusterToVSphereVMs(listErr, vms) ==
    IF listErr THEN <<>> ELSE [i \in 1..Len(vms) |-> <<"ns", vms[i]>>]

\* the owner references an IPAddressClaim can carry: VSphereVMs of infrav1, a VSphereVM of
\* another group, a Machine
OwnerReferences ==
    { [group |-> "infrastructure.cluster.x-k8s.io", kind |-> "VSphereVM", name |-> "vm-1"],
      [group |-> "infrastructure.cluster.x-k8s.io", kind |-> "VSphereVM", name |-> "vm-2"],
      [group |-> "other.example", kind |-> "VSphereVM", name |-> "vm-3"],
      [group |-> "cluster.x-k8s.io", kind |-> "Machine", name |-> "m-1"] }

\* clusterutilv1.HasOwner with the group of infrav1 and the kind VSphereVM
HasOwner(refs) ==
    \E i \in 1..Len(refs) :
       refs[i].group = "infrastructure.cluster.x-k8s.io" /\ refs[i].kind = "VSphereVM"

\* variant: a request for every owner reference of kind VSphereVM
ipAddressClaimToVSphereVM_EveryOwner(claim) ==
    IF HasOwner(claim.ownerReferences)
    THEN LET owners == SelectSeq(claim.ownerReferences, LAMBDA ref : ref.kind = "VSphereVM")
         IN  [i \in 1..Len(owners) |-> <<claim.namespace, owners[i].name>>]
    ELSE <<>>

\* ipAddressClaimToVSphereVM: when HasOwner holds, the request of the first owner
\* reference whose kind is VSphereVM, in the namespace of the claim
ipAddressClaimToVSphereVM(claim) ==
    IF HasOwner(claim.ownerReferences)
    THEN LET owners == SelectSeq(claim.ownerReferences, LAMBDA ref : ref.kind = "VSphereVM")
         IN  << <<claim.namespace, Head(owners).name>> >>
    ELSE <<>>

\* handler.EnqueueRequestsFromMapFunc: the requests of the object of the event; an Update
\* maps the old and the new object and enqueues a request once
EnqueueRequestsFromMapFunc(type, ofOld, ofNew) ==
    IF type = "Update"
    THEN ofOld \o SelectSeq(ofNew, LAMBDA q : \A i \in 1..Len(ofOld) : ofOld[i] # q)
    ELSE ofNew

\* an event of the Cluster watch: the filters, then the requests of clusterToVSphereVMs;
\* the model follows one event, the first one
ClusterEvent ==
    /\ watch = NoEvent
    /\ \E type \in {"Create", "Update", "Delete", "Generic"} :
          \E old, new \in [paused : BOOLEAN, annotation : BOOLEAN, filterLabel : BOOLEAN] :
             \E errOld, errNew \in BOOLEAN :
                \E vms \in {<<>>, <<"vm-1">>, <<"vm-2">>, <<"vm-1", "vm-2">>, <<"vm-2", "vm-1">>} :
                   /\ type # "Update" => old = new /\ errOld = errNew
                   /\ watch' =
                         [source |-> "Cluster", type |-> type, old |-> old, new |-> new,
                          list |-> [errOld |-> errOld, errNew |-> errNew, vms |-> vms],
                          requests |->
                             IF /\ ResourceNotPausedAndHasFilterLabel(new)
                                /\ clusterPredicates(type, old, new)
                             THEN EnqueueRequestsFromMapFunc(type,
                                     clusterToVSphereVMs(errOld, vms),
                                     clusterToVSphereVMs(errNew, vms))
                             ELSE <<>>]
    /\ UNCHANGED <<vmVars, zoneVars, sessionVars>>

\* an event of the IPAddressClaim watch: the filter, then the requests of
\* ipAddressClaimToVSphereVM; the model follows one event, the first one
ClaimEvent ==
    /\ watch = NoEvent
    /\ \E type \in {"Create", "Update", "Delete", "Generic"} :
          \E m, n \in 0..MaxOwnerRefs :
             \E oldRefs \in [1..m -> OwnerReferences], newRefs \in [1..n -> OwnerReferences] :
                \E annotation, filterLabel \in BOOLEAN :
                   \E new \in {[namespace |-> "ns", ownerReferences |-> newRefs,
                                annotation |-> annotation, filterLabel |-> filterLabel]} :
                      \E old \in {[new EXCEPT !.ownerReferences = oldRefs]} :
                         /\ type # "Update" => old = new
                         /\ watch' =
                               [source |-> "IPAddressClaim", type |-> type,
                                old |-> old, new |-> new,
                                requests |->
                                   IF ResourceNotPausedAndHasFilterLabel(new)
                                   THEN EnqueueRequestsFromMapFunc(type,
                                           ipAddressClaimToVSphereVM(old),
                                           ipAddressClaimToVSphereVM(new))
                                   ELSE <<>>]
    /\ UNCHANGED <<vmVars, zoneVars, sessionVars>>

(***************************************************************************)
(* Zone / Placement Reconciler                                             *)
(***************************************************************************)
Zones == {"zone-a", "zone-b"}
MachineNames == {"m1", "m2"}

PlacementConstraintMetCondition == "PlacementConstraintMet"
ResourcePoolNotFoundReason == "ResourcePoolNotFound"
FolderNotFoundReason == "FolderNotFound"
ZoneConditionTypes == {VCenterAvailableCondition, PlacementConstraintMetCondition}

\* a VSphereDeploymentZone: its placement constraint names a resource pool and / or a folder
NoZone(resourcePool, folder) ==
    [exists |-> FALSE, deletionTimestamp |-> FALSE, finalizer |-> FALSE,
     resourcePool |-> resourcePool, folder |-> folder, ready |-> "nil",
     conditions |-> [t \in ZoneConditionTypes |-> NoCondition]]

NewZone(resourcePool, folder) == [NoZone(resourcePool, folder) EXCEPT !.exists = TRUE]

PurgeZone(zone) ==
    IF zone.exists /\ zone.deletionTimestamp /\ ~zone.finalizer
    THEN NoZone(zone.resourcePool, zone.folder) ELSE zone

NoFailureDomain == [exists |-> FALSE, ownerReferences |-> <<>>]

\* a CAPI Machine: spec.failureDomain names a zone ("" when unset)
NoMachine(zoneName) == [exists |-> FALSE, deletionTimestamp |-> FALSE, failureDomain |-> zoneName]
\* variant: the reference is never dropped
RemoveOwnerRef_Keep(refs, name) == refs

\* clusterutilv1.RemoveOwnerRef: drops the first reference to name
RemoveOwnerRef(refs, name) ==
    IF \E i \in 1..Len(refs) : refs[i] = name
    THEN LET i == CHOOSE k \in 1..Len(refs) :
                     refs[k] = name /\ \A j \in 1..(k - 1) : refs[j] # name
         IN  SubSeq(refs, 1, i - 1) \o SubSeq(refs, i + 1, Len(refs))
    ELSE refs

\* clusterutilv1.EnsureOwnerRef: appends the reference unless it is there
EnsureOwnerRef(refs, name) ==
    IF \E i \in 1..Len(refs) : refs[i] = name THEN refs ELSE Append(refs, name)

\* updateOwnerReferences: sets the owner references and patches the object
updateOwnerReferences(fd, refs, patchErr) ==
    IF patchErr THEN [fd |-> fd, err |-> TRUE]
    ELSE [fd |-> [fd EXCEPT !.ownerReferences = refs], err |-> FALSE]
\* variant: the ActiveMachines filter is inverted
machinesUsingDeploymentZone_Deleting(ms, name) ==
    {m \in MachineNames :
        ms[m].exists /\ ms[m].deletionTimestamp /\ ms[m].failureDomain = name}

\* collections.ActiveMachines filtered by the zone's name
machinesUsingDeploymentZone(ms, name) ==
    {m \in MachineNames :
        ms[m].exists /\ ~ms[m].deletionTimestamp /\ ms[m].failureDomain = name}

NoZoneErr == [kind |-> "", machines |-> {}]
ZoneErr(kind) == [kind |-> kind, machines |-> {}]

ZoneOut(zone, fd, err, deleted) == [zone |-> zone, fd |-> fd, err |-> err, fdDeleted |-> deleted]
\* variant: one remaining owner does not keep the failure domain
noOwnerLeft_OneLeft(fd) == Len(fd.ownerReferences) <= 1

\* the failure domain may be deleted: no owner reference is left on it
noOwnerLeft(fd) == Len(fd.ownerReferences) = 0

\* the delete path after the owner reference of the zone is off the failure domain
zoneDeleteFailureDomain(zone, u, in) ==
    IF u.err THEN ZoneOut(zone, u.fd, ZoneErr("patchFailureDomain"), FALSE)
    ELSE IF noOwnerLeft(u.fd) /\ in.deleteErr
    THEN ZoneOut(zone, u.fd, ZoneErr("deleteFailureDomain"), FALSE)
    ELSE IF noOwnerLeft(u.fd)
    THEN ZoneOut([zone EXCEPT !.finalizer = FALSE], NoFailureDomain, NoZoneErr, TRUE)
    ELSE ZoneOut([zone EXCEPT !.finalizer = FALSE], u.fd, NoZoneErr, FALSE)

zoneReconcileDelete(name, zone, fd, ms, in) ==
    IF in.listErr THEN ZoneOut(zone, fd, ZoneErr("listMachines"), FALSE)
    ELSE IF machinesUsingDeploymentZone(ms, name) # {}
    THEN ZoneOut(zone, fd,
                 [kind |-> "inUse", machines |-> machinesUsingDeploymentZone(ms, name)], FALSE)
    ELSE IF in.fdGetErr THEN ZoneOut(zone, fd, ZoneErr("getFailureDomain"), FALSE)
    ELSE IF ~fd.exists THEN ZoneOut([zone EXCEPT !.finalizer = FALSE], fd, NoZoneErr, FALSE)
    ELSE zoneDeleteFailureDomain(zone,
            updateOwnerReferences(fd, RemoveOwnerRef(fd.ownerReferences, name), in.fdPatchErr),
            in)

\* variant: only the resource pool is looked up
reconcilePlacementConstraint_PoolOnly(zone, in) ==
    IF zone.resourcePool /\ ~in.resourcePoolFound
    THEN [zone |-> MarkFalse(zone, PlacementConstraintMetCondition, ResourcePoolNotFoundReason,
                             "Error", <<>>),
          err |-> TRUE]
    ELSE [zone |-> zone, err |-> FALSE]

\* reconcilePlacementConstraint: the resource pool and the folder are looked up when named
reconcilePlacementConstraint(zone, in) ==
    IF zone.resourcePool /\ ~in.resourcePoolFound
    THEN [zone |-> MarkFalse(zone, PlacementConstraintMetCondition, ResourcePoolNotFoundReason,
                             "Error", <<>>),
          err |-> TRUE]
    ELSE IF zone.folder /\ ~in.folderFound
    THEN [zone |-> MarkFalse(zone, PlacementConstraintMetCondition, FolderNotFoundReason,
                             "Error", <<>>),
          err |-> TRUE]
    ELSE [zone |-> zone, err |-> FALSE]

\* reconcileFailureDomain: the zone becomes an owner of the failure domain
reconcileFailureDomain(name, fd, in) ==
    IF in.fdReconcileErr THEN [fd |-> fd, err |-> TRUE]
    ELSE updateOwnerReferences(fd, EnsureOwnerRef(fd.ownerReferences, name), in.fdPatchErr)

zoneAfterFailureDomain(zone, r) ==
    IF r.err THEN ZoneOut([zone EXCEPT !.ready = "false"], r.fd, ZoneErr("failureDomain"), FALSE)
    ELSE ZoneOut([zone EXCEPT !.ready = "true"], r.fd, NoZoneErr, FALSE)

\* variant: a placement constraint that is not met leaves the ready flag as it was
zoneAfterPlacement_KeepReady(name, fd, in, pc) ==
    IF pc.err THEN ZoneOut(pc.zone, fd, ZoneErr("placement"), FALSE)
    ELSE zoneAfterFailureDomain(MarkTrue(pc.zone, PlacementConstraintMetCondition),
                                reconcileFailureDomain(name, fd, in))

\* reconcileNormal after reconcilePlacementConstraint: its error ends the cycle with the
\* zone not ready; else the condition is met and the failure domain is reconciled
zoneAfterPlacement(name, fd, in, pc) ==
    IF pc.err THEN ZoneOut([pc.zone EXCEPT !.ready = "false"], fd, ZoneErr("placement"), FALSE)
    ELSE zoneAfterFailureDomain(MarkTrue(pc.zone, PlacementConstraintMetCondition),
                                reconcileFailureDomain(name, fd, in))

zoneReconcileNormal(name, zone, fd, in) ==
    IF in.fdGetErr \/ ~fd.exists THEN ZoneOut(zone, fd, ZoneErr("getFailureDomain"), FALSE)
    ELSE IF in.sessionErr
    THEN ZoneOut([MarkFalse(zone, VCenterAvailableCondition, VCenterUnreachableReason,
                            "Error", <<>>) EXCEPT !.ready = "false"],
                 fd, ZoneErr("session"), FALSE)
    ELSE zoneAfterPlacement(name, fd, in,
            reconcilePlacementConstraint(MarkTrue(zone, VCenterAvailableCondition), in))

\* the body of the zone's Reconcile under the deferred patch
zoneReconcileBody(name, zone, fd, ms, in) ==
    IF zone.deletionTimestamp
    THEN [path |-> "delete", out |-> zoneReconcileDelete(name, zone, fd, ms, in)]
    ELSE IF ~zone.finalizer
    THEN [path |-> "addFinalizer",
          out |-> ZoneOut([zone EXCEPT !.finalizer = TRUE], fd, NoZoneErr, FALSE)]
    ELSE [path |-> "normal", out |-> zoneReconcileNormal(name, zone, fd, in)]

zoneExitWithPatch(stored, in, b) ==
    [path |-> b.path,
     out |-> [b.out EXCEPT !.zone = IF in.patchErr THEN stored ELSE @,
                           !.err = IF in.patchErr /\ @.kind = "" THEN ZoneErr("patch") ELSE @]]

ZoneReconcile(name, stored, fd, ms, in) ==
    IF ~stored.exists
    THEN [path |-> "notFound", out |-> ZoneOut(stored, fd, NoZoneErr, FALSE)]
    ELSE zoneExitWithPatch(stored, in, zoneReconcileBody(name, stored, fd, ms, in))

(***************************************************************************)
(* The VSphereDeploymentZone controller as a state machine                 *)
(***************************************************************************)
DefaultZoneInput ==
    [listErr |-> FALSE, fdGetErr |-> FALSE, fdPatchErr |-> FALSE, deleteErr |-> FALSE,
     sessionErr |-> FALSE, resourcePoolFound |-> TRUE, folderFound |-> TRUE,
     fdReconcileErr |-> FALSE, patchErr |-> FALSE]

IdleZoneCycle ==
    [zone |-> "", path |-> "idle", err |-> NoZoneErr, fdDeleted |-> FALSE,
     fetchedFinalizer |-> FALSE, fetchedFailureDomain |-> NoFailureDomain,
     listed |-> FALSE, faults |-> FALSE, in |-> DefaultZoneInput]

\* no delete reconcile of the zone key under way; got is the owner reference list the last
\* one read from the failure domain
IdleZoneWorker == [pc |-> "idle", got |-> <<>>, failureDomain |-> NoFailureDomain]

ZoneIdle ==
    /\ deploymentZones = [z \in Zones |-> NoZone(FALSE, FALSE)]
    /\ failureDomain = NoFailureDomain
    /\ machines = [m \in MachineNames |-> NoMachine("")]
    /\ zcycle = IdleZoneCycle
    /\ zoneWorkers = [z \in Zones |-> IdleZoneWorker]

\* two zones sharing one failure domain, both fresh or both adopted (after their first
\* successful reconciles: finalizer on, conditions met, ready) and owners of it; the
\* failure domain may have another owner; the machines, when created, use zone-a
InitZone ==
    /\ VMIdle
    /\ SessionIdle
    /\ \E adopted \in BOOLEAN, others \in {<<>>, <<"other">>} :
          /\ deploymentZones =
                [z \in Zones |-> IF adopted
                                 THEN [NewZone(z = "zone-a", TRUE) EXCEPT
                                          !.finalizer = TRUE, !.ready = "true",
                                          !.conditions = [t \in ZoneConditionTypes |->
                                                             TrueCondition]]
                                 ELSE NewZone(z = "zone-a", TRUE)]
          /\ failureDomain =
                [exists |-> TRUE,
                 ownerReferences |-> IF adopted THEN others \o <<"zone-a", "zone-b">>
                                                ELSE others]
    /\ machines = [m \in MachineNames |-> NoMachine("zone-a")]
    /\ zcycle = IdleZoneCycle
    /\ zoneWorkers = [z \in Zones |-> IdleZoneWorker]

\* one Reconcile of a VSphereDeploymentZone key, with the answers it can meet
ReconcileZoneWith(inputs) ==
    /\ \E z \in Zones, in \in inputs :
          \E r \in {ZoneReconcile(z, deploymentZones[z], failureDomain, machines, in)} :
              /\ deploymentZones' = [deploymentZones EXCEPT ![z] = PurgeZone(r.out.zone)]
              /\ failureDomain' = r.out.fd
              /\ zcycle' = [zone |-> z, path |-> r.path, err |-> r.out.err,
                            fdDeleted |-> r.out.fdDeleted,
                            fetchedFinalizer |-> deploymentZones[z].finalizer,
                            fetchedFailureDomain |-> failureDomain,
                            listed |-> ~in.listErr,
                            faults |-> in # DefaultZoneInput, in |-> in]
    /\ UNCHANGED <<machines, zoneWorkers, vmVars, sessionVars, watch>>

\* a reconcile of a zone with the answers it can meet, one failing call at a time: those
\* of the calls both paths make and of the delete path
ReconcileDeploymentZone ==
    ReconcileZoneWith(
        { DefaultZoneInput,
          [DefaultZoneInput EXCEPT !.listErr = TRUE],
          [DefaultZoneInput EXCEPT !.fdGetErr = TRUE],
          [DefaultZoneInput EXCEPT !.fdPatchErr = TRUE],
          [DefaultZoneInput EXCEPT !.deleteErr = TRUE],
          [DefaultZoneInput EXCEPT !.patchErr = TRUE] })

\* a user deletes a zone
RequestZoneDeletion ==
    /\ \E z \in Zones :
          /\ deploymentZones[z].exists /\ ~deploymentZones[z].deletionTimestamp
          /\ deploymentZones' =
                [deploymentZones EXCEPT ![z] = PurgeZone([@ EXCEPT !.deletionTimestamp = TRUE])]
    /\ zcycle' = IdleZoneCycle
    /\ UNCHANGED <<failureDomain, machines, zoneWorkers, vmVars, sessionVars, watch>>

\* a Machine is created, marked for deletion, or gone
ChangeMachine ==
    /\ \E m \in MachineNames :
          \/ /\ ~machines[m].exists
             /\ machines' = [machines EXCEPT ![m].exists = TRUE]
          \/ /\ machines[m].exists /\ ~machines[m].deletionTimestamp
             /\ machines' = [machines EXCEPT ![m].deletionTimestamp = TRUE]
          \/ /\ machines[m].exists /\ machines[m].deletionTimestamp
             /\ machines' = [machines EXCEPT ![m] = NoMachine(@.failureDomain)]
    /\ zcycle' = IdleZoneCycle
    /\ UNCHANGED <<deploymentZones, failureDomain, zoneWorkers, vmVars, sessionVars, watch>>

\* a user deletes the failure domain early
DeleteFailureDomain ==
    /\ failureDomain.exists
    /\ failureDomain' = NoFailureDomain
    /\ zcycle' = IdleZoneCycle
    /\ UNCHANGED <<deploymentZones, machines, zoneWorkers, vmVars, sessionVars, watch>>

NextZone ==
    \/ ReconcileDeploymentZone
    \/ RequestZoneDeletion
    \/ ChangeMachine
    \/ DeleteFailureDomain

SpecZone == InitZone /\ [][NextZone]_vars

\* the zones on the normal path, with the failures it can meet, until they are deleted
\* (each answer with and without a failure of the deferred patch)
ReconcileDeploymentZoneNormal ==
    ReconcileZoneWith(
        { [i EXCEPT !.patchErr = pe] :
             i \in { DefaultZoneInput,
                     [DefaultZoneInput EXCEPT !.fdGetErr = TRUE],
                     [DefaultZoneInput EXCEPT !.sessionErr = TRUE],
                     [DefaultZoneInput EXCEPT !.resourcePoolFound = FALSE],
                     [DefaultZoneInput EXCEPT !.folderFound = FALSE],
                     [DefaultZoneInput EXCEPT !.resourcePoolFound = FALSE, !.folderFound = FALSE],
                     [DefaultZoneInput EXCEPT !.fdReconcileErr = TRUE],
                     [DefaultZoneInput EXCEPT !.fdPatchErr = TRUE] },
             pe \in BOOLEAN })

NextZoneNormal ==
    \/ ReconcileDeploymentZoneNormal
    \/ RequestZoneDeletion
    \/ DeleteFailureDomain

SpecZoneNormal == InitZone /\ [][NextZoneNormal]_vars

\* reconcileDelete of zone keys that run in parallel, call by call; each reconcile works on
\* the copy of the failure domain it read.
\* The Get of the failure domain, after the machines were listed: NotFound ends the
\* reconcile at once (finalizer off, deferred patch of the zone)
ZoneDeleteGets ==
    /\ \E z \in Zones, in \in {DefaultZoneInput, [DefaultZoneInput EXCEPT !.patchErr = TRUE]} :
          /\ zoneWorkers[z].pc = "idle"
          /\ deploymentZones[z].exists /\ deploymentZones[z].deletionTimestamp
          /\ machinesUsingDeploymentZone(machines, z) = {}
          /\ IF failureDomain.exists
             THEN /\ zoneWorkers' = [zoneWorkers EXCEPT ![z] =
                         [pc |-> "got", got |-> failureDomain.ownerReferences,
                          failureDomain |-> failureDomain]]
                  /\ UNCHANGED deploymentZones
             ELSE \E r \in {ZoneReconcile(z, deploymentZones[z], failureDomain, machines, in)} :
                     /\ deploymentZones' =
                           [deploymentZones EXCEPT ![z] = PurgeZone(r.out.zone)]
                     /\ zoneWorkers' = [zoneWorkers EXCEPT ![z] =
                           [IdleZoneWorker EXCEPT
                               !.pc = IF r.out.err = NoZoneErr THEN "done" ELSE "idle"]]
    /\ UNCHANGED <<failureDomain, machines, zcycle, vmVars, sessionVars, watch>>

\* updateOwnerReferences: the patch helper is made of the copy, the owner reference of the
\* zone is taken off the copy, and the difference is sent as a merge patch that carries the
\* whole owner reference list and no resource version; without a difference nothing is sent
ZoneDeletePatches ==
    /\ \E z \in Zones, patchErr \in BOOLEAN :
          \E u \in {updateOwnerReferences(
                        zoneWorkers[z].failureDomain,
                        RemoveOwnerRef(zoneWorkers[z].failureDomain.ownerReferences, z),
                        /\ RemoveOwnerRef(zoneWorkers[z].failureDomain.ownerReferences, z)
                              # zoneWorkers[z].failureDomain.ownerReferences
                        /\ (patchErr \/ ~failureDomain.exists))} :
              /\ zoneWorkers[z].pc = "got"
              /\ failureDomain' =
                    IF u.err \/ u.fd = zoneWorkers[z].failureDomain THEN failureDomain
                    ELSE [failureDomain EXCEPT !.ownerReferences = u.fd.ownerReferences]
              /\ zoneWorkers' = [zoneWorkers EXCEPT ![z] =
                    IF u.err THEN [@ EXCEPT !.pc = "idle"]
                    ELSE [@ EXCEPT !.pc = "patched", !.failureDomain = u.fd]]
    /\ UNCHANGED <<deploymentZones, machines, zcycle, vmVars, sessionVars, watch>>

\* the rest of reconcileDelete: the Delete of the failure domain when the copy has no owner
\* reference left (NotFound is tolerated), the finalizer, and the deferred patch of the zone
ZoneDeleteFinishes ==
    /\ \E z \in Zones, in \in {DefaultZoneInput, [DefaultZoneInput EXCEPT !.deleteErr = TRUE],
                                [DefaultZoneInput EXCEPT !.patchErr = TRUE]} :
          \E r \in {zoneExitWithPatch(
                        deploymentZones[z], in,
                        [path |-> "delete",
                         out |-> zoneDeleteFailureDomain(
                                    deploymentZones[z],
                                    [fd |-> zoneWorkers[z].failureDomain, err |-> FALSE], in)])} :
              /\ zoneWorkers[z].pc = "patched"
              /\ deploymentZones' = [deploymentZones EXCEPT ![z] = PurgeZone(r.out.zone)]
              /\ failureDomain' = IF r.out.fdDeleted THEN NoFailureDomain ELSE failureDomain
              /\ zoneWorkers' = [zoneWorkers EXCEPT ![z].pc =
                    IF r.out.err = NoZoneErr THEN "done" ELSE "idle"]
    /\ UNCHANGED <<machines, zcycle, vmVars, sessionVars, watch>>

NextZoneParallel ==
    \/ ZoneDeleteGets
    \/ ZoneDeletePatches
    \/ ZoneDeleteFinishes
    \/ RequestZoneDeletion
    \/ DeleteFailureDomain

SpecZoneParallel == InitZone /\ [][NextZoneParallel]_vars

Init == InitVM /\ ZoneIdle /\ SessionIdle

Next ==
    \/ ReconcileVSphereVM
    \/ RequestDeletion
    \/ SetPaused
    \/ MarkFailed

Spec == Init /\ [][Next]_vars

\* a claim as createOrPatchIPAddressClaim leaves it, resolved or not by the IPAM provider
OwnedClaim(addressRef, ready) ==
    [exists |-> TRUE, ownerRef |-> TRUE, finalizer |-> TRUE, label |-> TRUE, poolRef |-> TRUE,
     addressRef |-> addressRef, ready |-> ready]

\* a claim of the same name that was not made by the controller
ForeignClaim == [NoClaim EXCEPT !.exists = TRUE]

\* the states of a stored claim: missing, foreign, or owned, with or without an address and
\* with any Ready condition; a Ready condition of status Unknown only while no address is bound
ClaimStates ==
    {NoClaim, ForeignClaim}
    \cup {OwnedClaim(c[1], c[2]) :
             c \in {d \in BOOLEAN \X {"Absent", "True", "False", "Unknown"} :
                      d[2] = "Unknown" => ~d[1]}}

\* a VSphereVM after the reconcile that added the finalizer
AdoptedVM(devices) ==
    SetSummary(MarkTrue([NewVM(devices) EXCEPT !.finalizer = TRUE], VCenterAvailableCondition))

\* the claim state machine: a VSphereVM whose devices take addresses from pools, either
\* freshly created, or adopted with its claims in any state that creation (with failed
\* writes and patches) and the IPAM provider can have left them in
InitClaims ==
    /\ \E d \in PoolDeviceLists :
          \/ /\ vsphereVM = NewVM(d)
             /\ ipAddressClaims = [p \in Pairs |-> NoClaim]
          \/ /\ vsphereVM = AdoptedVM(d)
             /\ \E g \in [pairSet(d) -> ClaimStates] :
                   ipAddressClaims = [p \in Pairs |-> IF p \in pairSet(d) THEN g[p] ELSE NoClaim]
    /\ clusterPaused = FALSE
    /\ cycle = IdleCycle
    /\ watch = NoEvent
    /\ ZoneIdle
    /\ SessionIdle

ReconcileVSphereVMClaims == ReconcileWith(ClaimVMAnswers, {FALSE})

NextClaims == ReconcileVSphereVMClaims

SpecClaims == InitClaims /\ [][NextClaims]_vars

\* the session cache under parallel reconciles
InitSession == VMIdle /\ ZoneIdle /\ SessionIdle

NextSession ==
    \/ CallGetOrCreate
    \/ \E w \in Workers : FinishLogin(w)
    \/ \E w \in Workers : NextReconcile(w)

SpecSession == InitSession /\ [][NextSession]_vars

\* the credentials of the sessions the reconciles ask for
NextCredentials ==
    \/ VMRetrievesSession
    \/ ZoneGetsSession

SpecCredentials == InitSession /\ [][NextCredentials]_vars

\* the requests the watches of the VSphereVM controller enqueue
NextWatch ==
    \/ ClusterEvent
    \/ ClaimEvent

SpecWatch == InitSession /\ [][NextWatch]_vars

(***************************************************************************)
(* Properties                                                              *)
(***************************************************************************)
destroyedCleanly(c) ==
    /\ c.calls.destroyVM
    /\ ~c.calls.destroyAnswer.err
    /\ ~c.calls.destroyAnswer.requeue
    /\ c.calls.destroyAnswer.state = VirtualMachineStateNotFound

\* C1: the finalizer leaves the VSphereVM only in a reconcile whose DestroyVM call returned
\* no error, an empty result and the state NotFound; with any other backend state it stays
C1_FinalizerRemovedOnlyWhenVMGone ==
    [][(vsphereVM.finalizer /\ ~vsphereVM'.finalizer) =>
          (cycle'.path = "delete" /\ destroyedCleanly(cycle'))]_vars

C1_Witness ==
    /\ cycle.path = "delete" /\ cycle.fetchedFinalizer
    /\ destroyedCleanly(cycle)
    /\ ~vsphereVM.exists /\ ~vsphereVM.finalizer

createOrPatchCalled(c) == c.calls.st.patched + c.calls.st.errs > 0

\* C2: ReconcileVM and the claim create-or-patch run only in a reconcile whose fetched
\* VSphereVM already carried the finalizer; the reconcile that adds the finalizer calls neither
C2_BackendOnlyAfterFinalizer ==
    /\ (cycle.calls.reconcileVM \/ createOrPatchCalled(cycle)) => cycle.fetchedFinalizer
    /\ cycle.path = "addFinalizer" => ~cycle.calls.reconcileVM /\ ~createOrPatchCalled(cycle)
    /\ (\E p \in Pairs : ipAddressClaims[p].ownerRef) => vsphereVM.finalizer \/ ~vsphereVM.exists

C2_Witness ==
    /\ cycle.fetchedFinalizer
    /\ cycle.calls.reconcileVM
    /\ cycle.calls.st.patched > 0
    /\ cycle.calls.st.claimsCreated > 0

\* C3 as stated: the reconcile of a fresh VSphereVM without finalizer adds the finalizer
\* and changes nothing else
C3_Original ==
    [][(cycle'.path = "addFinalizer" /\ ~cycle'.result.err) =>
          vsphereVM' = [vsphereVM EXCEPT !.finalizer = TRUE]]_vars

\* C3: the reconcile of a fresh, non-deleting VSphereVM without finalizer adds the finalizer,
\* sets VCenterAvailable to true and the Ready summary, and changes nothing else: no other
\* field or condition, no claim, no backend call; the normal path runs only on a later
\* reconcile that fetches the finalizer
C3_FinalizerFirst ==
    [][/\ (cycle'.path = "addFinalizer" /\ ~cycle'.result.err) =>
            /\ ~vsphereVM.finalizer /\ ~vsphereVM.deletionTimestamp
            /\ vsphereVM'.finalizer
            /\ vsphereVM'.conditions[VCenterAvailableCondition] = TrueCondition
            /\ vsphereVM'.conditions[ReadyCondition] = SetSummary(vsphereVM').conditions[ReadyCondition]
            /\ \A t \in {IPAddressClaimedCondition, VMProvisionedCondition} :
                  vsphereVM'.conditions[t] = vsphereVM.conditions[t]
            /\ [vsphereVM' EXCEPT !.finalizer = FALSE, !.conditions = vsphereVM.conditions]
                  = vsphereVM
            /\ ipAddressClaims' = ipAddressClaims
            /\ cycle'.calls = NoCalls
            /\ cycle'.result = ResultOK
       /\ cycle'.path = "normal" => vsphereVM.finalizer]_vars

C3_Witness ==
    /\ cycle.path = "addFinalizer" /\ ~cycle.result.err
    /\ ~cycle.fetchedFinalizer /\ vsphereVM.finalizer
    /\ vsphereVM.conditions[VCenterAvailableCondition] = TrueCondition
    /\ vsphereVM.biosUUID = "" /\ ~vsphereVM.ready

\* C4 as stated: a non-empty hardware id never changes
C4_Original ==
    [][(vsphereVM.biosUUID # "" /\ vsphereVM'.exists) =>
          vsphereVM'.biosUUID = vsphereVM.biosUUID]_vars

\* C4: a non-empty hardware id is never cleared; it changes only to the non-empty id that
\* the backend reported together with the state Ready in that reconcile
C4_BiosUUIDNeverCleared ==
    [][(vsphereVM.biosUUID # "" /\ vsphereVM'.exists) =>
          /\ vsphereVM'.biosUUID # ""
          /\ vsphereVM'.biosUUID # vsphereVM.biosUUID =>
                /\ cycle'.calls.reconcileVM
                /\ ~cycle'.calls.vmAnswer.err
                /\ cycle'.calls.vmAnswer.state = VirtualMachineStateReady
                /\ cycle'.calls.vmAnswer.biosUUID = vsphereVM'.biosUUID]_vars

C4_Witness ==
    /\ cycle.fetchedBiosUUID = "h-1"
    /\ cycle.calls.reconcileVM
    /\ cycle.calls.vmAnswer.biosUUID = "h-2"
    /\ vsphereVM.biosUUID = "h-2"

readyWithoutBiosUUID(c) ==
    /\ c.calls.reconcileVM
    /\ ~c.calls.vmAnswer.err
    /\ c.calls.vmAnswer.state = VirtualMachineStateReady
    /\ c.calls.vmAnswer.biosUUID = ""

\* C5: when the backend reports Ready with an empty hardware id, the reconcile returns an
\* error, leaves the stored hardware id as it is and makes no status progress: VM reference,
\* network status, addresses, ready flag and VMProvisioned condition stay as they were
C5_EmptyBiosUUIDIsError ==
    [][readyWithoutBiosUUID(cycle') =>
          /\ cycle'.result.err
          /\ vsphereVM'.biosUUID = vsphereVM.biosUUID
          /\ vsphereVM'.vmRef = vsphereVM.vmRef
          /\ vsphereVM'.network = vsphereVM.network
          /\ vsphereVM'.addresses = vsphereVM.addresses
          /\ vsphereVM'.ready = vsphereVM.ready
          /\ vsphereVM'.conditions[VMProvisionedCondition]
                = vsphereVM.conditions[VMProvisionedCondition]]_vars

C5_Witness ==
    /\ readyWithoutBiosUUID(cycle)
    /\ cycle.calls.vmAnswer.vmRef # "" /\ cycle.calls.vmAnswer.network # <<>>
    /\ cycle.result.err
    /\ cycle.fetchedBiosUUID # "" /\ vsphereVM.biosUUID = cycle.fetchedBiosUUID

\* C6: the VM reference is written at most once; once non-empty, no reconcile changes it,
\* whatever reference the backend reports
C6_VMRefWrittenOnce ==
    [][(vsphereVM.vmRef # "" /\ vsphereVM'.exists) => vsphereVM'.vmRef = vsphereVM.vmRef]_vars

C6_Witness ==
    /\ cycle.fetchedVMRef = "vm-1"
    /\ cycle.calls.reconcileVM /\ ~cycle.result.err
    /\ cycle.calls.vmAnswer.state = VirtualMachineStateReady
    /\ cycle.calls.vmAnswer.vmRef = "vm-2"
    /\ vsphereVM.vmRef = "vm-1"

\* the claim reconcile of the cycle ran to its end without an error
claimsReconciled(c) ==
    c.path = "normal" /\ c.calls.st.ran /\ ~c.calls.st.fetchErr /\ c.calls.st.errs = 0

\* the IPAddressClaimed condition that N, F and C determine
conditionByCounters(cond, n, f, c) ==
    /\ f = n => cond = TrueCondition
    /\ (f < n /\ c > 0) =>
          cond = FalseCondition(IPAddressClaimsBeingCreatedReason, "Info", <<c, n>>)
    /\ (f < n /\ c = 0) =>
          cond = FalseCondition(WaitingForIPAddressReason, "Info", <<n - f, n>>)

\* C7 as stated: after every error-free claim reconcile the condition follows N, F and C
C7_Original ==
    claimsReconciled(cycle) =>
        conditionByCounters(vsphereVM.conditions[IPAddressClaimedCondition],
                            cycle.calls.st.totalClaims, cycle.calls.st.claimsFulfilled,
                            cycle.calls.st.claimsCreated)

\* C7: after an error-free claim reconcile in which at least one claim carries no Ready
\* condition, IPAddressClaimed is true when F = N, false / IPAddressClaimsBeingCreated "C/N"
\* when F < N and C > 0, false / WaitingForIPAddress "(N-F)/N" when F < N and C = 0
C7_FallbackAggregation ==
    (claimsReconciled(cycle) /\ Len(cycle.calls.st.claims) < cycle.calls.st.totalClaims) =>
        conditionByCounters(vsphereVM.conditions[IPAddressClaimedCondition],
                            cycle.calls.st.totalClaims, cycle.calls.st.claimsFulfilled,
                            cycle.calls.st.claimsCreated)

C7_Witness ==
    /\ claimsReconciled(cycle)
    /\ cycle.calls.st.totalClaims = 2
    /\ cycle.calls.st.claimsFulfilled = 1
    /\ cycle.calls.st.claimsCreated = 0
    /\ Len(cycle.calls.st.claims) = 1
    /\ vsphereVM.conditions[IPAddressClaimedCondition]
          = FalseCondition(WaitingForIPAddressReason, "Info", <<1, 2>>)

\* the active machines whose failure domain is the zone
blockingMachines(z) ==
    {m \in MachineNames :
        machines[m].exists /\ ~machines[m].deletionTimestamp /\ machines[m].failureDomain = z}

ownedBy(fd, z) == \E i \in 1..Len(fd.ownerReferences) : fd.ownerReferences[i] = z

\* C8: a delete reconcile of a zone that an active machine uses returns an error, which names
\* the blocking machines once they are listed, keeps the finalizer of the zone, and neither
\* changes the owner references of the failure domain nor deletes it
C8_DeleteBlockedByMachines ==
    (zcycle.path = "delete" /\ blockingMachines(zcycle.zone) # {}) =>
        /\ zcycle.err.kind # ""
        /\ zcycle.listed =>
              zcycle.err = [kind |-> "inUse", machines |-> blockingMachines(zcycle.zone)]
        /\ deploymentZones[zcycle.zone].exists /\ deploymentZones[zcycle.zone].finalizer
        /\ failureDomain = zcycle.fetchedFailureDomain
        /\ ~zcycle.fdDeleted

C8_Witness ==
    /\ zcycle.path = "delete" /\ zcycle.listed
    /\ zcycle.err.kind = "inUse" /\ zcycle.err.machines = MachineNames
    /\ ownedBy(failureDomain, zcycle.zone)
    /\ deploymentZones[zcycle.zone].finalizer

\* C9: a delete reconcile of a zone that no active machine uses, all of whose calls succeed,
\* returns no error; afterwards the failure domain, if it exists, no longer carries the
\* owner reference of the zone, and the finalizer of the zone is removed, also when the
\* failure domain was already gone
C9_DeleteUnreferencedZone ==
    (zcycle.path = "delete" /\ blockingMachines(zcycle.zone) = {} /\ ~zcycle.faults) =>
        /\ zcycle.err = NoZoneErr
        /\ ~deploymentZones[zcycle.zone].finalizer
        /\ failureDomain.exists => ~ownedBy(failureDomain, zcycle.zone)

C9_Witness ==
    /\ zcycle.path = "delete" /\ ~zcycle.faults /\ zcycle.err = NoZoneErr
    /\ zcycle.fetchedFinalizer /\ ~deploymentZones[zcycle.zone].finalizer
    /\ ownedBy(zcycle.fetchedFailureDomain, zcycle.zone)
    /\ failureDomain.exists /\ ~ownedBy(failureDomain, zcycle.zone)

\* C10: the delete path of a zone deletes the failure domain only when no owner reference
\* is left once the reference of the zone is off; while another owner reference remains
\* the failure domain is not deleted
C10_FailureDomainDeletedWhenUnowned ==
    /\ zcycle.fdDeleted =>
          /\ zcycle.path = "delete"
          /\ \A i \in 1..Len(zcycle.fetchedFailureDomain.ownerReferences) :
                zcycle.fetchedFailureDomain.ownerReferences[i] = zcycle.zone
    /\ (zcycle.path # "idle" /\ zcycle.fetchedFailureDomain.exists /\ ~failureDomain.exists) =>
          zcycle.fdDeleted
    /\ (zcycle.path = "delete" /\ zcycle.fetchedFailureDomain.exists
          /\ \E i \in 1..Len(zcycle.fetchedFailureDomain.ownerReferences) :
                zcycle.fetchedFailureDomain.ownerReferences[i] # zcycle.zone) =>
          failureDomain.exists /\ ~zcycle.fdDeleted

C10_Witness ==
    /\ zcycle.fdDeleted /\ ~failureDomain.exists
    /\ zcycle.fetchedFailureDomain.ownerReferences = <<zcycle.zone>>

loggingIn(k) == {w \in Workers : callers[w].pc = "login" /\ callers[w].key = k}

served(k) == {w \in Workers : callers[w].pc = "done" /\ callers[w].key = k /\ ~callers[w].err}

\* C11: parallel GetOrCreate calls for one session key lead to one login: never two logins
\* for the key at a time, a caller that waits has exactly one login to wait for, and all
\* callers that are served hold the same session handle, the cached one
C11_SessionSingleFlight ==
    \A k \in SessionKeys :
        /\ Cardinality(loggingIn(k)) <= 1
        /\ inFlight[k] <=> loggingIn(k) # {}
        /\ \A w \in Workers :
              (callers[w].pc = "waiting" /\ callers[w].key = k) => Cardinality(loggingIn(k)) = 1
        /\ \A w \in served(k) : callers[w].handle # 0 /\ callers[w].handle = sessionCache[k]

C11_Witness ==
    \E k \in SessionKeys :
        /\ logins[k] = 1
        /\ \A w \in Workers : callers[w].key = k /\ callers[w].pc = "done"
        /\ \A w \in Workers : callers[w].handle = 1
        /\ Cardinality({w \in Workers : callers[w].waited}) = 2
        /\ inFlight = [j \in SessionKeys |-> FALSE]
        /\ logins = [j \in SessionKeys |-> IF j = k THEN 1 ELSE 0]

\* the claim state machine with deletion: a VSphereVM, fresh or adopted with its claims
\* missing, foreign or fulfilled, is reconciled, marked failed, and deleted by a user
InitRelease ==
    /\ \E d \in PoolDeviceLists :
          \/ /\ vsphereVM = NewVM(d)
             /\ ipAddressClaims = [p \in Pairs |-> NoClaim]
          \/ /\ vsphereVM = AdoptedVM(d)
             /\ \E g \in [pairSet(d) -> {NoClaim, ForeignClaim, OwnedClaim(TRUE, "True")}] :
                   ipAddressClaims = [p \in Pairs |-> IF p \in pairSet(d) THEN g[p] ELSE NoClaim]
    /\ clusterPaused = FALSE
    /\ cycle = IdleCycle
    /\ watch = NoEvent
    /\ ZoneIdle
    /\ SessionIdle

NextRelease ==
    \/ ReconcileVSphereVMClaims
    \/ RequestDeletion
    \/ MarkFailed

SpecRelease == InitRelease /\ [][NextRelease]_vars

\* the same VSphereVM under reconciles that keep coming: the workqueue of the controller
\* hands out a key again after an error, a requeue result or an event of a watch, so a
\* reconcile that can still change something is run in the end (weak fairness). The answers
\* of the collaborators stay free (the backend also answers with a second address), the
\* deferred patch can fail
ReconcileVSphereVMAgain ==
    ReconcileWith(ClaimVMAnswers
                     \cup {[err |-> FALSE, state |-> VirtualMachineStateReady, biosUUID |-> "h-1",
                             vmRef |-> "vm-1", network |-> << <<"10.0.0.5", "10.0.0.6">> >>]},
                  BOOLEAN)

\* a freshly created VSphereVM with DHCP, with a pool reference, or with a device that has
\* no address source at all
InitConverge ==
    /\ vsphereVM \in {NewVM(d) : d \in {<<DhcpDevice>>, <<PoolDevice(1)>>,
                                        <<PoolDevice(1), BareDevice>>}}
    /\ ipAddressClaims = [p \in Pairs |-> NoClaim]
    /\ clusterPaused = FALSE
    /\ cycle = IdleCycle
    /\ watch = NoEvent
    /\ ZoneIdle
    /\ SessionIdle

NextConverge ==
    \/ ReconcileVSphereVMAgain
    \/ RequestDeletion
    \/ MarkFailed

SpecConverge == InitConverge /\ [][NextConverge]_vars /\ WF_vars(ReconcileVSphereVMAgain)

\* the two controllers side by side: a run follows the VSphereVM controller on a VSphereVM
\* with its claims, or the deployment zone controller on the zones with their failure
\* domain. The controllers share no object, and a reconcile is triggered for a key only
\* once an object of that key was seen
InitControllers == InitRelease \/ InitZone

NextControllers ==
    \/ vsphereVM # NoVM(<<>>) /\ NextRelease
    \/ deploymentZones # [z \in Zones |-> NoZone(FALSE, FALSE)] /\ NextZoneNormal

SpecControllers == InitControllers /\ [][NextControllers]_vars

\* what one more Reconcile with the answers of the last one would store
reconciledAgain == Reconcile(vsphereVM, ipAddressClaims, clusterPaused, cycle.in).out

\* C12 as stated: a second Reconcile with the same answers changes neither the stored
\* VSphereVM nor a claim
C12_Original ==
    cycle.path # "idle" =>
        /\ Purge(reconciledAgain.vm) = vsphereVM
        /\ reconciledAgain.claims = ipAddressClaims

\* C12: after a Reconcile that went past the finalizer block and created no claim, a second
\* Reconcile with the same answers changes neither the stored VSphereVM nor a claim
C12_IdempotentOnceAdopted ==
    (cycle.path \notin {"idle", "addFinalizer"} /\ cycle.calls.st.claimsCreated = 0) =>
        /\ Purge(reconciledAgain.vm) = vsphereVM
        /\ reconciledAgain.claims = ipAddressClaims

C12_Witness ==
    /\ cycle.path = "normal" /\ ~cycle.result.err
    /\ vsphereVM.ready /\ vsphereVM.biosUUID = "h-1" /\ vsphereVM.vmRef = "vm-1"
    /\ cycle.calls.st.totalClaims = 2 /\ cycle.calls.st.patched = 2
    /\ cycle.calls.st.claimsCreated = 0
    /\ Purge(reconciledAgain.vm) = vsphereVM

\* C13 as stated: a Reconcile of a VSphereVM whose cluster is paused returns success, leaves
\* the stored VSphereVM as it was and calls neither ReconcileVM, DestroyVM nor the claim
\* create-or-patch
C13_PausedNoMutation ==
    [][(clusterPaused /\ vsphereVM.exists /\ cycle'.path # "idle") =>
          /\ vsphereVM' = vsphereVM
          /\ cycle'.result = ResultOK
          /\ ~cycle'.calls.reconcileVM /\ ~cycle'.calls.destroyVM
          /\ ~createOrPatchCalled(cycle')]_vars

\* the changes the last Reconcile made on its copy of the fetched VSphereVM before it
\* returned for a missing session or owner
unpatchedExit ==
    IF cycle.path = "sessionErr"
    THEN FalseCondition(VCenterUnreachableReason, "Error", <<>>)
    ELSE TrueCondition

\* C14 as stated: a Reconcile that fetched the VSphereVM and returned for a session failure
\* or an unresolved owner has patched the condition it set; after a session failure it
\* returned an error and the stored VSphereVM carries VCenterAvailable=False/VCenterUnreachable
C14_EveryExitPatches ==
    (cycle.path \in {"sessionErr", "noOwner", "ownerErr"} /\ vsphereVM.exists) =>
        /\ vsphereVM.conditions[VCenterAvailableCondition] = unpatchedExit
        /\ cycle.path = "sessionErr" => cycle.result.err

\* the scenario of C15: the answer of a backend VM that is ready
ScenarioReadyAnswer ==
    [err |-> FALSE, state |-> VirtualMachineStateReady, biosUUID |-> "h-1", vmRef |-> "vm-1",
     network |-> << <<"10.0.0.5">> >>]

\* the reconcile c went down the normal path and met the ReconcileVM answer a, nothing failing
answeredWith(c, a) == c.path = "normal" /\ c.in = [DefaultInput EXCEPT !.vm = a]

\* C15: a VSphereVM with one DHCP device: the reconcile in which ReconcileVM answers Pending
\* leaves ready false; when the backend then answers Ready with BIOS UUID h-1, reference vm-1
\* and the address 10.0.0.5, the stored VSphereVM has ready = true, the addresses <<10.0.0.5>>,
\* the BIOS UUID h-1, the reference vm-1 and VMProvisioned = True
C15_ProvisioningThenReady ==
    [][/\ (/\ vsphereVM.devices = <<DhcpDevice>> /\ ~vsphereVM.ready
           /\ answeredWith(cycle', NoVMAnswer) /\ cycle'.calls.reconcileVM)
          => (~vsphereVM'.ready /\ vsphereVM'.addresses = vsphereVM.addresses)
       /\ (/\ vsphereVM.devices = <<DhcpDevice>> /\ ~vsphereVM.ready /\ vsphereVM.vmRef = ""
           /\ answeredWith(cycle, NoVMAnswer) /\ cycle.calls.reconcileVM
           /\ answeredWith(cycle', ScenarioReadyAnswer))
          => /\ vsphereVM'.ready
             /\ vsphereVM'.addresses = <<"10.0.0.5">>
             /\ vsphereVM'.biosUUID = "h-1"
             /\ vsphereVM'.vmRef = "vm-1"
             /\ vsphereVM'.conditions[VMProvisionedCondition] = TrueCondition]_vars

C15_Witness ==
    /\ vsphereVM.devices = <<DhcpDevice>>
    /\ answeredWith(cycle, ScenarioReadyAnswer) /\ cycle.calls.reconcileVM
    /\ cycle.fetchedBiosUUID = "" /\ cycle.fetchedVMRef = ""
    /\ vsphereVM.ready /\ vsphereVM.addresses = <<"10.0.0.5">>
    /\ vsphereVM.biosUUID = "h-1" /\ vsphereVM.vmRef = "vm-1"
    /\ vsphereVM.conditions[VMProvisionedCondition] = TrueCondition
    /\ vsphereVM.conditions[ReadyCondition] = TrueCondition

\* the claim createOrPatchIPAddressClaim creates: owned by the VM, with the finalizer, the
\* cluster label and the pool reference, no address and no Ready condition yet
CreatedClaim == OwnedClaim(FALSE, "Absent")

\* C16: a VSphereVM with one device that takes one address from a pool and no claim stored:
\* a reconcile down the normal path in which no call fails creates exactly one claim, the one
\* named for device 0 and pool reference 0, and sets IPAddressClaimed to False with the reason
\* IPAddressClaimsBeingCreated and the message 1/1
C16_OneClaimCreated ==
    [][(/\ vsphereVM.devices = <<PoolDevice(1)>> /\ ~vsphereVM.failure
        /\ \A p \in Pairs : ~ipAddressClaims[p].exists
        /\ cycle'.path = "normal"
        /\ cycle'.in.claimIO = DefaultInput.claimIO /\ ~cycle'.in.patchErr)
       => /\ ipAddressClaims' = [p \in Pairs |-> IF p = <<0, 0>> THEN CreatedClaim ELSE NoClaim]
          /\ cycle'.calls.st.claimsCreated = 1 /\ cycle'.calls.st.totalClaims = 1
          /\ vsphereVM'.conditions[IPAddressClaimedCondition] =
                FalseCondition(IPAddressClaimsBeingCreatedReason, "Info", <<1, 1>>)]_vars

C16_Witness ==
    /\ vsphereVM.devices = <<PoolDevice(1)>>
    /\ cycle.path = "normal" /\ cycle.calls.st.claimsCreated = 1
    /\ cycle.calls.st.totalClaims = 1
    /\ ipAddressClaims = [p \in Pairs |-> IF p = <<0, 0>> THEN CreatedClaim ELSE NoClaim]
    /\ vsphereVM.conditions[IPAddressClaimedCondition] =
          FalseCondition(IPAddressClaimsBeingCreatedReason, "Info", <<1, 1>>)

\* the last Reconcile ran deleteIPAddressClaims to its end
claimsReleased(c) == c.path = "delete" /\ c.calls.releaseClaims /\ ~c.result.err

\* C17: no step deletes a claim; a Reconcile of a VSphereVM that is being deleted changes
\* nothing of a claim but its finalizer, which it only removes, it leaves a missing claim
\* missing, and once deleteIPAddressClaims has run to its end no existing claim of the
\* VM's device / pool pairs carries the finalizer
C17_ClaimsReleasedNeverDeleted ==
    [][\A p \in Pairs :
          /\ ipAddressClaims[p].exists => ipAddressClaims'[p].exists
          /\ cycle'.path = "delete" =>
                /\ [ipAddressClaims'[p] EXCEPT !.finalizer = ipAddressClaims[p].finalizer]
                      = ipAddressClaims[p]
                /\ ipAddressClaims'[p].finalizer => ipAddressClaims[p].finalizer
          /\ (claimsReleased(cycle') /\ p \in pairSet(vsphereVM.devices)) =>
                ~ipAddressClaims'[p].finalizer]_vars

C17_Witness ==
    /\ claimsReleased(cycle)
    /\ ~vsphereVM.exists
    /\ \E p, q \in pairSet(vsphereVM.devices) :
          /\ ipAddressClaims[p] = [OwnedClaim(TRUE, "True") EXCEPT !.finalizer = FALSE]
          /\ ipAddressClaims[q] = NoClaim

\* the handling of a claim failed in the normal-path reconcile c
claimFailed(c) == c.path = "normal" /\ c.calls.st.ran /\ (c.calls.st.fetchErr \/ c.calls.st.errs > 0)

failedPairs(c, kind) == {p \in pairSet(vsphereVM.devices) : c.in.claimIO[p] = kind}

\* the normal-path reconcile c ran reconcileIPAddressClaims
claimsHandled(c) == c.path = "normal" /\ c.calls.st.ran

readyStatuses(c) == {c.calls.st.claims[i].status : i \in 1..Len(c.calls.st.claims)}

\* the error-free claim reconcile c found a Ready condition on every claim
everyClaimReportsReady(c) ==
    claimsReconciled(c) /\ Len(c.calls.st.claims) = c.calls.st.totalClaims

FallbackReasons == {IPAddressClaimsBeingCreatedReason, WaitingForIPAddressReason}

\* C20 as stated: when every claim carries a Ready condition, IPAddressClaimed is their
\* aggregate, True only if all of them are True, whatever the counters are; a reason of the
\* fallback appears only when a claim lacks the Ready condition
C20_Original ==
    [][/\ (everyClaimReportsReady(cycle') /\ cycle'.calls.st.totalClaims > 0) =>
             /\ vsphereVM'.conditions[IPAddressClaimedCondition].status \in readyStatuses(cycle')
             /\ vsphereVM'.conditions[IPAddressClaimedCondition].status = "True"
                   <=> readyStatuses(cycle') = {"True"}
       /\ (/\ claimsReconciled(cycle') /\ cycle'.calls.st.totalClaims > 0
           /\ vsphereVM'.conditions[IPAddressClaimedCondition].reason \in FallbackReasons)
          => Len(cycle'.calls.st.claims) < cycle'.calls.st.totalClaims]_vars

\* C20: when every claim carries a Ready condition, IPAddressClaimed is their aggregate
\* whatever the counters are: False, with the number of True claims out of all, as soon as one
\* is False; otherwise True as soon as one is True; Unknown when all are Unknown; left as it
\* was when the VM has no claim. A reason of the fallback appears only when a claim lacks the
\* Ready condition
C20_PrecisePathFirst ==
    [][/\ (everyClaimReportsReady(cycle') /\ cycle'.calls.st.totalClaims > 0) =>
             /\ vsphereVM'.conditions[IPAddressClaimedCondition].status \in readyStatuses(cycle')
             /\ vsphereVM'.conditions[IPAddressClaimedCondition].status = "False"
                   <=> "False" \in readyStatuses(cycle')
             /\ vsphereVM'.conditions[IPAddressClaimedCondition].status = "True"
                   <=> ("True" \in readyStatuses(cycle') /\ "False" \notin readyStatuses(cycle'))
             /\ "False" \in readyStatuses(cycle') =>
                   vsphereVM'.conditions[IPAddressClaimedCondition].message =
                      << Cardinality({i \in 1..Len(cycle'.calls.st.claims) :
                                         cycle'.calls.st.claims[i].status = "True"}),
                         cycle'.calls.st.totalClaims >>
       /\ (everyClaimReportsReady(cycle') /\ cycle'.calls.st.totalClaims = 0) =>
             vsphereVM'.conditions[IPAddressClaimedCondition] =
                vsphereVM.conditions[IPAddressClaimedCondition]
       /\ (/\ claimsReconciled(cycle') /\ cycle'.calls.st.totalClaims > 0
           /\ vsphereVM'.conditions[IPAddressClaimedCondition].reason \in FallbackReasons)
          => Len(cycle'.calls.st.claims) < cycle'.calls.st.totalClaims]_vars

\* every claim is fulfilled, so the fallback would say True, but one claim is not ready
C20_Witness ==
    /\ everyClaimReportsReady(cycle)
    /\ cycle.calls.st.totalClaims = 2 /\ cycle.calls.st.claimsFulfilled = 2
    /\ readyStatuses(cycle) = {"True", "False"}
    /\ vsphereVM.conditions[IPAddressClaimedCondition].status = "False"
    /\ vsphereVM.conditions[IPAddressClaimedCondition].message = <<1, 2>>

\* what create-or-patch answers for the stored claim of pair p when the write succeeds
patchedOnce(p) == createOrPatchIPAddressClaim(ipAddressClaims[p], "ok")

\* C21: create-or-patch of an existing claim sets the owner reference, the finalizer, the
\* cluster-name label and the pool reference and nothing else: the address reference and the
\* Ready condition stay, the claim is reported as not created, and a second create-or-patch
\* of the result changes nothing
C21_PatchKeepsAllocatorFields ==
    \A p \in Pairs :
        ipAddressClaims[p].exists =>
            /\ ~patchedOnce(p).created /\ ~patchedOnce(p).err
            /\ patchedOnce(p).claim =
                  [ipAddressClaims[p] EXCEPT !.ownerRef = TRUE, !.finalizer = TRUE,
                                             !.label = TRUE, !.poolRef = TRUE]
            /\ patchedOnce(p).claim.addressRef = ipAddressClaims[p].addressRef
            /\ patchedOnce(p).claim.ready = ipAddressClaims[p].ready
            /\ createOrPatchIPAddressClaim(patchedOnce(p).claim, "ok") =
                  [claim |-> patchedOnce(p).claim, created |-> FALSE, err |-> FALSE]

\* both claims of the VM existed and were patched: the one with an address and a Ready
\* condition kept them, the foreign one got owner, finalizer, label and pool reference
C21_Witness ==
    /\ cycle.path = "normal" /\ cycle.calls.st.patched = 2 /\ cycle.calls.st.claimsCreated = 0
    /\ cycle.calls.st.claimsFulfilled = 1 /\ Len(cycle.calls.st.claims) = 1
    /\ ipAddressClaims[<<0, 0>>] = OwnedClaim(TRUE, "False")
    /\ ipAddressClaims[<<0, 1>>] = OwnedClaim(FALSE, "Absent")

\* C22: a Reconcile of a VSphereVM that is marked failed and is not being deleted creates and
\* patches no claim, does not call ReconcileVM, and leaves the BIOS UUID, the VM reference,
\* the network status, the addresses, the ready flag and the failure marker as they were
C22_FailedVMNotReconciled ==
    [][(/\ vsphereVM.exists /\ vsphereVM.failure /\ ~vsphereVM.deletionTimestamp
        /\ cycle'.path # "idle")
       => /\ ipAddressClaims' = ipAddressClaims
          /\ ~cycle'.calls.st.ran /\ ~createOrPatchCalled(cycle')
          /\ ~cycle'.calls.reconcileVM
          /\ vsphereVM'.biosUUID = vsphereVM.biosUUID
          /\ vsphereVM'.vmRef = vsphereVM.vmRef
          /\ vsphereVM'.network = vsphereVM.network
          /\ vsphereVM'.addresses = vsphereVM.addresses
          /\ vsphereVM'.ready = vsphereVM.ready
          /\ vsphereVM'.failure]_vars

\* a failed VM with the finalizer whose claim is missing was reconciled down the normal path
C22_Witness ==
    /\ vsphereVM.exists /\ vsphereVM.failure /\ vsphereVM.finalizer
    /\ cycle.path = "normal" /\ cycle.fetchedFinalizer /\ ~cycle.result.err
    /\ ~cycle.calls.st.ran /\ ~cycle.calls.reconcileVM
    /\ vsphereVM.devices = <<PoolDevice(1)>>
    /\ ipAddressClaims[<<0, 0>>] = NoClaim
    /\ ~vsphereVM.ready

\* the device has no DHCP, no static address and no pool reference
lacksAddressSource(dev) ==
    ~dev.DHCP4 /\ ~dev.DHCP6 /\ dev.IPAddrs = 0 /\ dev.AddressesFromPools = 0

\* C23: when a device of the VSphereVM has neither DHCP4 nor DHCP6, no static address and no
\* pool reference, a normal-path Reconcile of the VM (not marked failed, patch succeeding)
\* sets VMProvisioned to False / WaitingForStaticIPAllocation, returns success without
\* requeue, leaves all claims as they are, also those of other devices, and does not call
\* ReconcileVM
C23_WaitingForStaticIP ==
    [][(/\ vsphereVM.exists /\ ~vsphereVM.failure
        /\ \E i \in 1..Len(vsphereVM.devices) : lacksAddressSource(vsphereVM.devices[i])
        /\ cycle'.path = "normal" /\ ~cycle'.in.patchErr)
       => /\ vsphereVM'.conditions[VMProvisionedCondition] =
                FalseCondition(WaitingForStaticIPAllocationReason, "Info", <<>>)
          /\ cycle'.result = ResultOK
          /\ ipAddressClaims' = ipAddressClaims
          /\ ~cycle'.calls.st.ran /\ ~createOrPatchCalled(cycle')
          /\ ~cycle'.calls.reconcileVM]_vars

\* the first device has a pool reference and no claim, the second has no address source
C23_Witness ==
    /\ vsphereVM.devices = <<PoolDevice(1), BareDevice>>
    /\ cycle.path = "normal" /\ cycle.result = ResultOK
    /\ vsphereVM.conditions[VMProvisionedCondition] =
          FalseCondition(WaitingForStaticIPAllocationReason, "Info", <<>>)
    /\ ipAddressClaims[<<0, 0>>] = NoClaim
    /\ ~cycle.calls.st.ran /\ ~cycle.calls.reconcileVM

\* ReconcileVM was called in the reconcile c, it returned no error and the patch succeeded
backendAnswered(c) ==
    c.path = "normal" /\ c.calls.reconcileVM /\ ~c.calls.vmAnswer.err /\ ~c.in.patchErr

\* no device of the network status has an address
noAddressIn(network) == \A i \in 1..Len(network) : network[i] = <<>>

\* C24: when ReconcileVM answers Ready with a BIOS UUID and a network status without any
\* address, the Reconcile sets VMProvisioned to False / WaitingForIPAllocation, leaves the
\* ready flag as it was and returns no error and RequeueAfter 10 s; when ReconcileVM answers
\* a state other than Ready, the Reconcile returns no error and no requeue
C24_RequeueOnlyWithoutAddress ==
    [][/\ (/\ backendAnswered(cycle')
           /\ cycle'.calls.vmAnswer.state = VirtualMachineStateReady
           /\ cycle'.calls.vmAnswer.biosUUID # ""
           /\ noAddressIn(cycle'.calls.vmAnswer.network))
          => /\ vsphereVM'.conditions[VMProvisionedCondition] =
                   FalseCondition(WaitingForIPAllocationReason, "Info", <<>>)
             /\ vsphereVM'.ready = vsphereVM.ready
             /\ vsphereVM'.addresses = <<>>
             /\ cycle'.result = [err |-> FALSE, requeue |-> FALSE, requeueAfter |-> 10]
       /\ (backendAnswered(cycle') /\ cycle'.calls.vmAnswer.state # VirtualMachineStateReady)
          => /\ cycle'.result = [err |-> FALSE, requeue |-> FALSE, requeueAfter |-> 0]
             /\ vsphereVM'.ready = vsphereVM.ready]_vars

\* the backend VM is ready and has a device, but the device has no address yet
C24_Witness ==
    /\ backendAnswered(cycle)
    /\ cycle.calls.vmAnswer.state = VirtualMachineStateReady
    /\ cycle.calls.vmAnswer.network = << <<>> >>
    /\ vsphereVM.biosUUID = "h-1" /\ vsphereVM.network = << <<>> >>
    /\ ~vsphereVM.ready
    /\ vsphereVM.conditions[VMProvisionedCondition] =
          FalseCondition(WaitingForIPAllocationReason, "Info", <<>>)
    /\ cycle.result.requeueAfter = 10

\* C25: after a Reconcile that entered the delete path and whose patch succeeded, the stored
\* VSphereVM, as long as it exists, has VMProvisioned False: with the reason DeletionFailed
\* when DestroyVM returned an error, with the reason Deleting otherwise, also when the
\* Reconcile returned an error
C25_DeletingConditionPersisted ==
    (cycle.path = "delete" /\ ~cycle.in.patchErr /\ vsphereVM.exists) =>
        /\ cycle.calls.destroyVM
        /\ vsphereVM.conditions[VMProvisionedCondition] =
              IF cycle.calls.destroyAnswer.err
              THEN FalseCondition(DeletionFailedReason, "Warning", <<>>)
              ELSE FalseCondition(DeletingReason, "Info", <<>>)
        /\ vsphereVM.conditions[ReadyCondition].status = "False"

\* DestroyVM failed: the Reconcile returned the error and the condition is stored
C25_Witness ==
    /\ cycle.path = "delete" /\ cycle.result.err /\ ~cycle.in.patchErr
    /\ cycle.calls.destroyAnswer.err
    /\ vsphereVM.exists /\ vsphereVM.finalizer
    /\ vsphereVM.conditions[VMProvisionedCondition] =
          FalseCondition(DeletionFailedReason, "Warning", <<>>)

\* the Reconcile c went down the delete path, DestroyVM reported NotFound, the patch succeeded
backendVMGone(c) == c.path = "delete" /\ destroyedCleanly(c) /\ ~c.in.patchErr

\* C26: on the delete path, once DestroyVM reports NotFound: when the cluster cache tracker
\* is locked the Reconcile returns Requeue, keeps the finalizer and releases no claim; when
\* the node cannot be deleted, as when it was deleted, the claims are released and, no claim
\* call failing, the finalizer is removed in the same Reconcile, which returns no error
C26_NodeDeletionBestEffort ==
    backendVMGone(cycle) =>
        /\ cycle.calls.deleteNode
        /\ cycle.in.node = "locked" =>
              /\ cycle.result = ResultRequeue
              /\ vsphereVM.exists /\ vsphereVM.finalizer
              /\ ~cycle.calls.releaseClaims
        /\ cycle.in.node # "locked" => cycle.calls.releaseClaims
        /\ (cycle.in.node # "locked" /\ cycle.in.claimIO = DefaultInput.claimIO) =>
              /\ cycle.result = ResultOK
              /\ ~vsphereVM.exists
              /\ \A p \in pairSet(vsphereVM.devices) : ~ipAddressClaims[p].finalizer

\* the node could not be deleted: the claim is released and the VSphereVM is gone
C26_Witness ==
    /\ backendVMGone(cycle) /\ cycle.in.node = "error"
    /\ cycle.calls.releaseClaims /\ cycle.result = ResultOK
    /\ ~vsphereVM.exists /\ cycle.fetchedFinalizer
    /\ \E p \in pairSet(vsphereVM.devices) :
          ipAddressClaims[p].exists /\ ipAddressClaims[p].ownerRef /\ ~ipAddressClaims[p].finalizer

\* the Reconcile c reached deleteIPAddressClaims and its patch succeeded
releaseRan(c) == c.path = "delete" /\ c.calls.releaseClaims /\ ~c.in.patchErr

\* the claims of the VM for which, with the answers io, the Get fails (not with NotFound) or
\* the Update that removes the finalizer fails
failingClaims(io) ==
    {p \in pairSet(vsphereVM.devices) :
        \/ io[p] = "getErr"
        \/ io[p] = "writeErr" /\ ipAddressClaims[p].exists /\ ipAddressClaims[p].finalizer}

releaseFails(io) == failingClaims(io) # {}

\* C27 as stated: a Reconcile that reached the release of the claims removes the finalizer of
\* the VSphereVM, whether or not a claim could be fetched and updated
C27_Original ==
    [][releaseRan(cycle') => ~vsphereVM'.finalizer]_vars

\* C27: a Reconcile that reached the release of the claims removes the finalizer of the
\* VSphereVM exactly when no Get and no Update of a claim failed; when one failed, the
\* Reconcile returns an error, the VSphereVM keeps the finalizer and the failing claims are
\* left as they were
C27_ReleaseFailureKeepsFinalizer ==
    [][releaseRan(cycle') =>
          /\ releaseFails(cycle'.in.claimIO) =>
                /\ cycle'.result.err
                /\ vsphereVM'.exists /\ vsphereVM'.finalizer
                /\ \A p \in failingClaims(cycle'.in.claimIO) :
                      ipAddressClaims'[p] = ipAddressClaims[p]
          /\ ~releaseFails(cycle'.in.claimIO) =>
                /\ ~cycle'.result.err
                /\ ~vsphereVM'.exists /\ ~vsphereVM'.finalizer]_vars

\* the Update of a claim failed: the claim and the VSphereVM keep their finalizers
C27_Witness ==
    /\ releaseRan(cycle) /\ cycle.result.err
    /\ vsphereVM.exists /\ vsphereVM.finalizer /\ vsphereVM.deletionTimestamp
    /\ \E p \in pairSet(vsphereVM.devices) :
          /\ cycle.in.claimIO[p] = "writeErr"
          /\ ipAddressClaims[p].exists /\ ipAddressClaims[p].finalizer

\* the lookups of the reconcile found an identity reference whose credentials resolve
identityResolves(r) ==
    IF r.by = "vm"
    THEN r.input.identityRef = "resolves"
    ELSE \E i \in 1..Len(r.input.clusters) :
            r.input.clusters[i].server = "vc" /\ r.input.clusters[i].identityRef = "resolves"

\* the lookups before the identity reference succeeded: the Cluster and the VSphereCluster
\* of the VSphereVM were found, the VSphereClusters of the zone were listed
clusterLookedUp(r) ==
    \/ r.by = "vm" /\ r.input.cluster = "found" /\ r.input.vsphereCluster = "found"
    \/ r.by = "zone" /\ ~r.input.listErr

\* the session of the reconcile was asked for with the given credentials
sessionAskedWith(r, user) == ~r.err /\ r.user = user

\* C30 as stated: in the VM reconciler and in the zone reconciler the credentials of an
\* identity reference that resolves are used, and the default credentials of the manager
\* when there is no identity reference or when it does not resolve
C30_Original ==
    clusterLookedUp(resolved) =>
       IF identityResolves(resolved)
       THEN sessionAskedWith(resolved, "identity")
       ELSE sessionAskedWith(resolved, "manager")

\* C30: the credentials of an identity reference that resolves are used, in the VM
\* reconciler and in the zone reconciler, and the default credentials of the manager when
\* there is no identity reference; an identity reference that does not resolve is passed
\* over by the zone reconciler (the next VSphereCluster, at last the default credentials),
\* while the VM reconciler returns an error and asks for no session; a worker that calls
\* GetOrCreate does so with the key of the credentials resolved
C30_FirstResolvedCredentialsWin ==
    [][/\ clusterLookedUp(resolved') =>
             IF identityResolves(resolved')
             THEN sessionAskedWith(resolved', "identity")
             ELSE IF resolved'.by = "vm" /\ resolved'.input.identityRef = "fails"
             THEN resolved'.err /\ (resolved' # resolved => callers' = callers /\ logins' = logins)
             ELSE sessionAskedWith(resolved', "manager")
       /\ \A w \in Workers :
             callers[w].pc = "idle" /\ callers'[w].pc # "idle" =>
                /\ ~resolved'.err
                /\ callers'[w].key = sessionKey(resolved'.user = "identity")]_vars

\* a VSphereVM reconcile whose identity reference did not resolve: it ended in an error
\* and no session was asked for, while a zone reconcile before it logged in with the
\* default credentials
C30_Witness ==
    /\ resolved.by = "vm"
    /\ clusterLookedUp(resolved)
    /\ resolved.input.identityRef = "fails"
    /\ resolved.err
    /\ logins = [k \in SessionKeys |-> IF k = "vc/dc/manager" THEN 1 ELSE 0]
    /\ \E w \in Workers : callers[w].pc = "login" /\ callers[w].key = "vc/dc/manager"

\* annotations.IsPaused of a Cluster: spec.paused or the paused annotation
pausedCluster(c) == c.paused \/ c.annotation

\* the requests of the VSphereVMs the List of the mapper returned
requestsOf(vms) == [i \in 1..Len(vms) |-> <<"ns", vms[i]>>]

\* C28 as stated: an Update of a Cluster emits VSphereVM keys only when the cluster goes
\* from paused to not paused
C28_Original ==
    watch.source = "Cluster" /\ watch.type = "Update" /\ watch.requests # <<>> =>
       pausedCluster(watch.old) /\ ~pausedCluster(watch.new)

\* C28: an Update of a Cluster emits VSphereVM keys only when the cluster is not paused
\* after the update, whether or not it was paused before: no key when it is paused
\* afterwards, and the keys of the VSphereVMs of the cluster when it is not paused, passes
\* the watch filter and the VSphereVMs could be listed
C28_UpdateOfUnpausedClusterEmitsKeys ==
    watch.source = "Cluster" /\ watch.type = "Update" =>
       /\ watch.requests # <<>> => ~pausedCluster(watch.new)
       /\ pausedCluster(watch.new) => watch.requests = <<>>
       /\ ~pausedCluster(watch.new) /\ watch.new.filterLabel
             /\ ~(watch.list.errOld /\ watch.list.errNew) =>
             watch.requests = requestsOf(watch.list.vms)

\* an Update of a Cluster that was not paused and still is not: the keys of its two
\* VSphereVMs are emitted
C28_Witness ==
    /\ watch.source = "Cluster"
    /\ watch.type = "Update"
    /\ ~pausedCluster(watch.old)
    /\ ~pausedCluster(watch.new)
    /\ watch.requests = << <<"ns", "vm-1">>, <<"ns", "vm-2">> >>

\* the owner references of kind VSphereVM of a claim, by position
vmOwners(claim) ==
    {i \in 1..Len(claim.ownerReferences) : claim.ownerReferences[i].kind = "VSphereVM"}

\* the claim has an owner reference of the expected kind: a VSphereVM of infrav1
hasExpectedOwner(claim) ==
    \E i \in vmOwners(claim) :
       claim.ownerReferences[i].group = "infrastructure.cluster.x-k8s.io"

\* the keys are the ones the claim calls for: none without an owner of the expected kind,
\* else the one of the first owner reference of kind VSphereVM
keysOfClaim(keys, claim) ==
    IF hasExpectedOwner(claim)
    THEN \E i \in vmOwners(claim) :
            /\ \A j \in vmOwners(claim) : i <= j
            /\ keys = << <<claim.namespace, claim.ownerReferences[i].name>> >>
    ELSE keys = <<>>

\* C29: the address-claim mapper changes no object and returns one key, the claim
\* namespace with the name of the first owner reference of kind VSphereVM, when the claim
\* has an owner reference of the expected VSphereVM kind, and no key otherwise; never more
\* than one, whatever the number of VSphereVM owner references (an Update maps the old and
\* the new claim, each to its key)
C29_ClaimMapsToFirstOwner ==
    [][watch'.source = "IPAddressClaim" =>
          /\ UNCHANGED <<vsphereVM, ipAddressClaims, clusterPaused>>
          /\ ResourceNotPausedAndHasFilterLabel(watch'.new) /\ watch'.type # "Update" =>
                /\ keysOfClaim(watch'.requests, watch'.new)
                /\ Len(watch'.requests) <= 1
          /\ ResourceNotPausedAndHasFilterLabel(watch'.new) /\ watch'.type = "Update" =>
                \E ofOld, ofNew \in {<<>>} \cup {<<q>> : q \in {"ns"} \X {"vm-1", "vm-2", "vm-3"}} :
                   /\ keysOfClaim(ofOld, watch'.old)
                   /\ keysOfClaim(ofNew, watch'.new)
                   /\ watch'.requests = IF ofOld = ofNew THEN ofNew ELSE ofOld \o ofNew]_vars

\* a claim owned by a VSphereVM of another group first and by a VSphereVM of infrav1 after
\* it: its event emits one key, the one of the first of the two
C29_Witness ==
    /\ watch.source = "IPAddressClaim"
    /\ watch.type = "Create"
    /\ Len(watch.new.ownerReferences) = 2
    /\ Cardinality(vmOwners(watch.new)) = 2
    /\ watch.new.ownerReferences[1].group = "other.example"
    /\ watch.requests = << <<"ns", "vm-3">> >>

\* the zone of the last zone reconcile, as stored after it
reconciledZone == deploymentZones[zcycle.zone]

\* the last zone reconcile took the normal path and got as far as the placement constraint:
\* the failure domain was retrieved and the session created
placementChecked ==
    /\ zcycle.path = "normal"
    /\ ~zcycle.in.fdGetErr /\ zcycle.fetchedFailureDomain.exists
    /\ ~zcycle.in.sessionErr

\* the placement constraint of the zone was not met, for the reason given
placementNotMet(reason) ==
    /\ reconciledZone.conditions[PlacementConstraintMetCondition].status = "False"
    /\ reconciledZone.conditions[PlacementConstraintMetCondition].reason = reason
    /\ reconciledZone.ready = "false"
    /\ zcycle.err.kind = "placement"

\* C31: on the zone normal path a configured resource pool that is not found, or a
\* configured folder that is not found (the resource pool being found or not configured),
\* sets the placement-constraint condition false with its own not-found reason and the
\* ready flag false, and an error is returned; these changes are stored when the patch on
\* exit succeeds; a zone is ready after a normal cycle without error only when the
\* session, the placement and the failure-domain steps all succeeded
C31_PlacementNotFound ==
    /\ placementChecked /\ ~zcycle.in.patchErr =>
          /\ reconciledZone.resourcePool /\ ~zcycle.in.resourcePoolFound =>
                placementNotMet(ResourcePoolNotFoundReason)
          /\ (/\ ~(reconciledZone.resourcePool /\ ~zcycle.in.resourcePoolFound)
              /\ reconciledZone.folder /\ ~zcycle.in.folderFound) =>
                placementNotMet(FolderNotFoundReason)
    /\ zcycle.path = "normal" /\ zcycle.err = NoZoneErr =>
          /\ reconciledZone.ready = "true"
          /\ placementChecked
          /\ reconciledZone.resourcePool => zcycle.in.resourcePoolFound
          /\ reconciledZone.folder => zcycle.in.folderFound
          /\ ~zcycle.in.fdReconcileErr /\ ~zcycle.in.fdPatchErr

\* zone-b, which names a folder only, after a normal cycle in which the folder was not
\* found: the condition is false for that reason and the zone is not ready
C31_Witness ==
    /\ zcycle.zone = "zone-b"
    /\ placementChecked /\ ~zcycle.in.patchErr
    /\ ~zcycle.in.folderFound /\ zcycle.in.resourcePoolFound
    /\ placementNotMet(FolderNotFoundReason)
    /\ reconciledZone.conditions[VCenterAvailableCondition].status = "True"

\* C36 as stated: a zone normal-path reconcile that returns an error (failure domain not
\* retrievable, session failure, placement constraint not met, failure-domain reconcile
\* failure) leaves the stored ready flag of the zone false
C36_ErrorLeavesNotReady ==
    (/\ zcycle.path = "normal"
     /\ zcycle.err.kind \in {"getFailureDomain", "session", "placement", "failureDomain"}
     /\ ~zcycle.in.patchErr) =>
       reconciledZone.ready = "false"

\* C37: a deployment zone whose ready flag is true has its VCenterAvailable condition and
\* its PlacementConstraintMet condition true, in every state the zone reconciles reach
C37_ReadyZoneMeetsConditions ==
    \A z \in Zones :
       deploymentZones[z].exists /\ deploymentZones[z].ready = "true" =>
          /\ deploymentZones[z].conditions[VCenterAvailableCondition].status = "True"
          /\ deploymentZones[z].conditions[PlacementConstraintMetCondition].status = "True"

\* zone-b was made ready by a normal cycle, as the first owner of the failure domain,
\* while zone-a failed its placement constraint before and is not ready
C37_Witness ==
    /\ zcycle.zone = "zone-b" /\ zcycle.path = "normal" /\ zcycle.err = NoZoneErr
    /\ deploymentZones["zone-b"].ready = "true"
    /\ failureDomain.ownerReferences = <<"zone-b">>
    /\ deploymentZones["zone-a"].ready = "false"
    /\ deploymentZones["zone-a"].conditions[PlacementConstraintMetCondition].status = "False"

\* the owners of the VSphereVM do not resolve yet: no owner VSphereMachine, no
\* VSphereCluster of it, or no owner Machine set on it
OwnersNotReady == {"noVSphereMachine", "noVSphereCluster", "noMachine"}

specPairs(vm) ==
    {p \in Pairs : p[1] < Len(vm.devices) /\ p[2] < vm.devices[p[1] + 1].AddressesFromPools}

\* the claims that exist, by the pair of their name
existingClaims(claims) == {p \in Pairs : claims[p].exists}

\* C33: every IPAddressClaim that comes into existence does so in a reconcile of the
\* VSphereVM, under the name of a (device index, pool-reference index) pair of the spec of
\* the VSphereVM, and with an owner reference to the VSphereVM; the claims of the VSphereVM
\* are never more than the pairs of its spec, however often it is reconciled
C33_ClaimsFollowSpecPairs ==
    [][/\ \A p \in existingClaims(ipAddressClaims') \ existingClaims(ipAddressClaims) :
             /\ cycle'.calls.st.ran
             /\ p \in specPairs(vsphereVM)
             /\ ipAddressClaims'[p].ownerRef
       /\ existingClaims(ipAddressClaims') \subseteq specPairs(vsphereVM)
       /\ Cardinality(existingClaims(ipAddressClaims')) <= Cardinality(specPairs(vsphereVM))]_vars

\* a VSphereVM with MaxPools pool references on its device, reconciled while its claims
\* were there: the claims of its pairs exist, one each, all owned, and none was created
C33_Witness ==
    /\ Len(vsphereVM.devices) = 1
    /\ Cardinality(specPairs(vsphereVM)) = MaxPools
    /\ existingClaims(ipAddressClaims) = specPairs(vsphereVM)
    /\ \A p \in specPairs(vsphereVM) : ipAddressClaims[p].ownerRef
    /\ cycle.calls.st.ran
    /\ cycle.calls.st.totalClaims = MaxPools
    /\ cycle.calls.st.claimsCreated = 0
    /\ cycle.calls.st.patched = MaxPools

\* C34 as stated: in every state the reconciles reach, a VSphereVM with status ready has
\* a status address list that is not empty and a VMProvisioned condition that is true
C34_Original ==
    vsphereVM.exists /\ vsphereVM.ready =>
       /\ vsphereVM.addresses # <<>>
       /\ vsphereVM.conditions[VMProvisionedCondition].status = "True"

\* C34: status ready is set by a normal-path reconcile that stores a status address list
\* that is not empty and a VMProvisioned condition that is true; the flag is not taken
\* back afterwards, so a later reconcile whose backend answer has no address, and the
\* delete path, leave a ready VSphereVM whose VMProvisioned condition is false
C34_ReadySetWithAddresses ==
    [][/\ (vsphereVM'.exists /\ vsphereVM'.ready /\ ~vsphereVM.ready) =>
             /\ cycle'.path = "normal"
             /\ vsphereVM'.addresses # <<>>
             /\ vsphereVM'.conditions[VMProvisionedCondition].status = "True"
       /\ (vsphereVM.ready /\ vsphereVM'.exists) => vsphereVM'.ready]_vars

\* a ready VSphereVM after a reconcile whose backend answer had no address: the address
\* list is empty and VMProvisioned is false, waiting for the IP allocation, yet it is ready
C34_Witness ==
    /\ vsphereVM.exists /\ vsphereVM.ready
    /\ cycle.path = "normal"
    /\ vsphereVM.addresses = <<>>
    /\ vsphereVM.conditions[VMProvisionedCondition] =
          FalseCondition(WaitingForIPAllocationReason, "Info", <<>>)

\* C38: a resource marked for deletion only takes the delete path. No step adds the
\* finalizer to a VSphereVM or to a deployment zone that carries a deletion timestamp; a
\* reconcile that fetched a deleting VSphereVM takes neither the finalizer nor the normal
\* path and calls neither ReconcileVM nor the claim create-or-patch; a reconcile that
\* fetched a deleting zone takes the delete path; and DestroyVM is called only by a
\* reconcile that fetched a VSphereVM with a deletion timestamp
C38_DeletingTakesDeletePath ==
    [][/\ (vsphereVM.deletionTimestamp /\ vsphereVM'.finalizer) => vsphereVM.finalizer
       /\ cycle'.fetchedDeletion =>
             /\ cycle'.path \notin {"addFinalizer", "normal", "moduleErr"}
             /\ ~cycle'.calls.reconcileVM
             /\ ~createOrPatchCalled(cycle')
       /\ cycle'.calls.destroyVM => cycle'.fetchedDeletion /\ cycle'.path = "delete"
       /\ \A z \in Zones :
             (deploymentZones[z].exists /\ deploymentZones[z].deletionTimestamp) =>
                /\ deploymentZones'[z].finalizer => deploymentZones[z].finalizer
                /\ (zcycle' # zcycle /\ zcycle'.zone = z) => zcycle'.path = "delete"]_vars

\* a deleting VSphereVM that was never created in the backend, with a claim of its own, was
\* reconciled: DestroyVM was called, ReconcileVM and the claim create-or-patch were not
C38_Witness ==
    /\ cycle.fetchedDeletion /\ cycle.path = "delete"
    /\ cycle.fetchedVMRef = ""
    /\ cycle.calls.destroyVM
    /\ ~cycle.calls.reconcileVM /\ ~createOrPatchCalled(cycle)
    /\ vsphereVM.exists /\ vsphereVM.deletionTimestamp /\ vsphereVM.finalizer
    /\ \E p \in Pairs : ipAddressClaims[p].exists /\ ipAddressClaims[p].ownerRef

\* the delete reconcile of the zone completed without error and the zone is gone
zoneDeleted(z) == ~deploymentZones[z].exists /\ zoneWorkers[z].pc = "done"

\* the delete reconcile of zone z read the failure domain while it still carried the owner
\* reference of the other zone, that is before the other reconcile patched it
gotBeforePatchOf(z, other) ==
    \E i \in 1..Len(zoneWorkers[z].got) : zoneWorkers[z].got[i] = other

\* C35: when the delete reconciles of two zones that share a failure domain ran in parallel,
\* each reading the failure domain before the other patched it, and both completed without
\* error, the failure domain carries the owner reference of neither zone and is deleted
C35_ParallelDeletesReleaseFailureDomain ==
    (/\ zoneDeleted("zone-a") /\ zoneDeleted("zone-b")
     /\ gotBeforePatchOf("zone-a", "zone-b")
     /\ gotBeforePatchOf("zone-b", "zone-a")) =>
        /\ ~failureDomain.exists
        /\ \A i \in 1..Len(failureDomain.ownerReferences) :
              failureDomain.ownerReferences[i] \notin Zones

\* the step is a reconcile of the VSphereVM (a change from outside leaves the cycle idle)
reconcileStep == cycle'.path # "idle"

\* the answers the delete path needs, as the claim lists them: the session and the owner
\* objects resolve, DestroyVM answers NotFound without error or requeue, the remote client
\* is not locked, the claim updates succeed
deleteAnswersGood(in) ==
    /\ ~in.sessionErr /\ in.owners = "resolved"
    /\ in.destroy = [err |-> FALSE, requeue |-> FALSE, state |-> VirtualMachineStateNotFound]
    /\ in.node # "locked"
    /\ \A p \in Pairs : in.claimIO[p] = "ok"

deletingVM == vsphereVM.exists /\ vsphereVM.deletionTimestamp

createAnswersGood(in) ==
    /\ ~in.sessionErr /\ in.owners = "resolved" /\ ~in.moduleErr
    /\ \A p \in Pairs : in.claimIO[p] = "ok"
    /\ ~in.vm.err /\ in.vm.state = VirtualMachineStateReady
    /\ in.vm.biosUUID # "" /\ flatten(in.vm.network) # <<>>

\* a VSphereVM the normal path can bring up: not deleting, not failed, every device with
\* DHCP, a static address or a pool reference
creatableVM ==
    /\ vsphereVM.exists /\ ~vsphereVM.deletionTimestamp /\ ~vsphereVM.failure
    /\ \A i \in 1..Len(vsphereVM.devices) :
          \/ vsphereVM.devices[i].DHCP4 \/ vsphereVM.devices[i].DHCP6
          \/ vsphereVM.devices[i].IPAddrs > 0
          \/ vsphereVM.devices[i].AddressesFromPools > 0

readyAndProvisioned ==
    /\ vsphereVM.exists /\ vsphereVM.ready
    /\ vsphereVM.conditions[VMProvisionedCondition].status = "True"

====
